---- MODULE Spec2Model ----
(***************************************************************************)
(* A model of the enterprise-tools command-line clients (jira-cli.py,      *)
(* confluence-cli.py, gitlab-cli.py, slack-cli.py): one process invocation *)
(* resolves credentials, issues HTTP calls one at a time and exits.        *)
(*                                                                         *)
(* Text is modelled as a sequence of tokens (a token is a character or an  *)
(* atomic word such as a key name), so that strip, split, lower and the    *)
(* ID-shape tests are computed the way the code computes them.             *)
(***************************************************************************)
EXTENDS Integers, Sequences, FiniteSets, TLC

VARIABLES
    client,   \* which client script runs: "jira", "confluence", "gitlab", "slack"
    args,     \* the parsed command line (argparse namespace)
    env,      \* os.environ, restricted to the client's credential variables
    file,     \* ~/.enterprise-tools/credentials.env: [exists, lines]
    creds,    \* what load_credentials returned
    pc,       \* position of the process in main()
    http,     \* every HTTP request issued so far, with its response
    out,      \* lines printed to standard output
    err,      \* lines printed to standard error
    exit,     \* process exit status, Running while the process runs
    loc       \* local variables of main() and of the function being executed

vars == <<client, args, env, file, creds, pc, http, out, err, exit, loc>>

-----------------------------------------------------------------------------
(* Bounds of the model *)

MaxLines == 2        \* lines in the credentials file
MaxList == 2         \* records in a listing returned by the remote
MaxVersion == 2      \* highest page version the remote reports

-----------------------------------------------------------------------------
(* Python values *)

None == <<"<None>">>
Running == 0 - 1     \* no exit status yet

Truthy(v) == v # None /\ v # <<>>

RECURSIVE LStrip(_, _)
LStrip(s, chars) ==
    IF s # <<>> /\ Head(s) \in chars THEN LStrip(Tail(s), chars) ELSE s

RECURSIVE RStrip(_, _)
RStrip(s, chars) ==
    IF s # <<>> /\ s[Len(s)] \in chars
    THEN RStrip(SubSeq(s, 1, Len(s) - 1), chars)
    ELSE s

Strip(s, chars) == RStrip(LStrip(s, chars), chars)

Contains(s, tok) == \E i \in 1..Len(s) : s[i] = tok

StartsWith(s, tok) == Len(s) > 0 /\ s[1] = tok

FirstIndex(s, tok) ==
    CHOOSE i \in 1..Len(s) : s[i] = tok /\ \A j \in 1..(i - 1) : s[j] # tok

\* line.split('=', 1)
SplitKey(s) == SubSeq(s, 1, FirstIndex(s, "=") - 1)
SplitValue(s) == SubSeq(s, FirstIndex(s, "=") + 1, Len(s))

Whitespace == {" "}
QuoteChars == {"\"", "'"}

SeqsUpTo(S, n) == UNION {[1..k -> S] : k \in 0..n}

-----------------------------------------------------------------------------
(* Credentials: load_credentials of each client *)

Clients == {"jira", "confluence", "gitlab", "slack"}

AllFields == {"base_url", "email", "token"}

Fields(c) ==
    CASE c = "jira" -> {"base_url", "email", "token"}
      [] c = "confluence" -> {"base_url", "email", "token"}
      [] c = "gitlab" -> {"base_url", "token"}
      [] c = "slack" -> {"token"}

KeyOf(c, f) ==
    CASE c = "jira" /\ f = "base_url" -> "JIRA_BASE_URL"
      [] c = "jira" /\ f = "email" -> "JIRA_EMAIL"
      [] c = "jira" /\ f = "token" -> "JIRA_API_TOKEN"
      [] c = "confluence" /\ f = "base_url" -> "CONFLUENCE_BASE_URL"
      [] c = "confluence" /\ f = "email" -> "CONFLUENCE_EMAIL"
      [] c = "confluence" /\ f = "token" -> "CONFLUENCE_API_TOKEN"
      [] c = "gitlab" /\ f = "base_url" -> "GITLAB_BASE_URL"
      [] c = "gitlab" /\ f = "token" -> "GITLAB_TOKEN"
      [] c = "slack" /\ f = "token" -> "SLACK_BOT_TOKEN"
      [] OTHER -> "<no key>"

GitlabDefaultUrl == <<"https://gitlab.com">>

\* all([...]) over the fields a client requires before it returns
AllSet(v, fs) == \A f \in fs : Truthy(v[f])

\* The body of "for line in f": one line updates the fields whose key it names.
CredLine(c, acc, line) ==
    LET l == Strip(line, Whitespace) IN
    IF Contains(l, "=") /\ ~StartsWith(l, "#")
    THEN LET key == SplitKey(l)
             value == Strip(SplitValue(l), QuoteChars)
         IN  [f \in AllFields |->
                 IF f \in Fields(c) /\ key = <<KeyOf(c, f)>> THEN value ELSE acc[f]]
    ELSE acc

RECURSIVE ReadFile(_, _, _)
ReadFile(c, acc, lines) ==
    IF lines = <<>> THEN acc
    ELSE ReadFile(c, CredLine(c, acc, Head(lines)), Tail(lines))

NoCreds == [ok |-> FALSE, base_url |-> None, email |-> None, token |-> None]

\* jira-cli.py load_credentials
LoadJira(e, f) ==
    LET fromEnv == [base_url |-> e.base_url, email |-> e.email, token |-> e.token]
        merged == IF ~AllSet(fromEnv, Fields("jira")) /\ f.exists
                  THEN ReadFile("jira", fromEnv, f.lines)
                  ELSE fromEnv
    IN  IF ~AllSet(merged, Fields("jira")) THEN NoCreds
        ELSE [ok |-> TRUE, base_url |-> RStrip(merged.base_url, {"/"}),
              email |-> merged.email, token |-> merged.token]

\* confluence-cli.py load_credentials
LoadConfluence(e, f) ==
    LET fromEnv == [base_url |-> e.base_url, email |-> e.email, token |-> e.token]
        merged == IF ~AllSet(fromEnv, Fields("confluence")) /\ f.exists
                  THEN ReadFile("confluence", fromEnv, f.lines)
                  ELSE fromEnv
    IN  IF ~AllSet(merged, Fields("confluence")) THEN NoCreds
        ELSE [ok |-> TRUE, base_url |-> RStrip(merged.base_url, {"/"}),
              email |-> merged.email, token |-> merged.token]

\* gitlab-cli.py load_credentials
LoadGitlab(e, f) ==
    LET fromEnv == [base_url |-> IF e.base_url = None THEN GitlabDefaultUrl
                                 ELSE e.base_url,
                    email |-> None, token |-> e.token]
        merged == IF ~Truthy(fromEnv.token) /\ f.exists
                  THEN ReadFile("gitlab", fromEnv, f.lines)
                  ELSE fromEnv
    IN  IF ~Truthy(merged.token) THEN NoCreds
        ELSE [ok |-> TRUE, base_url |-> RStrip(merged.base_url, {"/"}),
              email |-> None, token |-> merged.token]

\* slack-cli.py load_credentials
LoadSlack(e, f) ==
    LET fromEnv == [base_url |-> None, email |-> None, token |-> e.token]
        merged == IF ~Truthy(fromEnv.token) /\ f.exists
                  THEN ReadFile("slack", fromEnv, f.lines)
                  ELSE fromEnv
    IN  IF ~Truthy(merged.token) THEN NoCreds
        ELSE [ok |-> TRUE, base_url |-> None, email |-> None,
              token |-> merged.token]

LoadCredentialsOf(c, e, f) ==
    CASE c = "jira" -> LoadJira(e, f)
      [] c = "confluence" -> LoadConfluence(e, f)
      [] c = "gitlab" -> LoadGitlab(e, f)
      [] c = "slack" -> LoadSlack(e, f)

-----------------------------------------------------------------------------
(* The command line *)

NoAction == ""

NoArgs ==
    [action |-> NoAction, issue |-> None, assignee |-> None, summary |-> None,
     transition |-> None, comment |-> None, epic |-> None, user |-> None,
     channel |-> None, start |-> None, due |-> None, add |-> None,
     remove |-> None, from_issue |-> None, to_issue |-> None,
     link_type |-> None, list_types |-> FALSE, format |-> "summary"]

IssueArg == <<"PRJ-1">>
EpicArg == <<"PRJ-9">>
PageArg == <<"4711">>

\* An optional flag: absent, given empty, or given with a value.
Opt(S) == {None, <<>>} \cup S

-----------------------------------------------------------------------------
(* The remote side: what an HTTP call can come back with *)

Raised == [status |-> 0, sok |-> FALSE, raised |-> TRUE, ret |-> None]

\* REST services (Jira, Confluence, GitLab): a status, and a body on 200/201.
Responses(payloads) ==
    {Raised}
    \cup {[status |-> s, sok |-> FALSE, raised |-> FALSE, ret |-> p] :
             s \in {200, 201}, p \in payloads}
    \cup {[status |-> s, sok |-> FALSE, raised |-> FALSE, ret |-> None] :
             s \in {204, 409}}

\* Slack Web API: a JSON body with an "ok" flag, whatever the HTTP status.
SlackResponses(payloads) ==
    {Raised}
    \cup {[status |-> 200, sok |-> TRUE, raised |-> FALSE, ret |-> p] :
             p \in payloads}
    \cup {[status |-> s, sok |-> FALSE, raised |-> FALSE, ret |-> None] :
             s \in {200, 429}}

Request(method, op, key, val) ==
    [method |-> method, op |-> op, key |-> key, val |-> val]

Exchange(req, resp) ==
    [method |-> req.method, op |-> req.op, key |-> req.key, val |-> req.val,
     status |-> resp.status, sok |-> resp.sok, raised |-> resp.raised,
     ret |-> resp.ret]

\* user.get('accountId', ''): an account ID, or '' for a record without one
AccountIds == {<<"acc1">>, <<"acc2">>, <<>>}
UserListings == SeqsUpTo(AccountIds, MaxList)

IssueKeys == {<<"PRJ-2">>, None}

TransitionItems ==
    {[id |-> <<"11">>, name |-> <<"D", "o">>],
     [id |-> <<"21">>, name |-> <<"d", "o">>],
     [id |-> <<"31">>, name |-> <<"G", "o">>]}
TransitionListings == SeqsUpTo(TransitionItems, MaxList)

\* The transitions a resolved issue may offer
ReopenItems ==
    {[id |-> <<"41">>, name |-> <<"T", "o", " ", "D", "o">>],
     [id |-> <<"51">>, name |-> <<"t", "o", " ", "d", "o">>],
     [id |-> <<"61">>, name |-> <<"R", "E", "O", "P", "E", "N", "!">>],
     [id |-> <<"71">>, name |-> <<"D", "o", "n", "e">>]}
ReopenListings == SeqsUpTo(ReopenItems, MaxList)

\* A page body: <<n>> when it carries version.number = n, <<>> when it has none.
PageBodies == {<<>>} \cup {<<n>> : n \in 1..MaxVersion}

-----------------------------------------------------------------------------
(* Process steps shared by every call site *)

Static == UNCHANGED <<client, args, env, file>>

Issue(req, resp) == http' = Append(http, Exchange(req, resp))

\* The bug of catching the exception and going round again
CrashCaught ==
    /\ err' = Append(err, <<"retrying">>)
    /\ UNCHANGED <<pc, exit, out, loc>>

\* An exception nobody catches (timeout, connection error, undecodable body):
\* Python prints the traceback and the process exits with status 1.
Crash ==
    /\ err' = Append(err, <<"Traceback">>)
    /\ exit' = 1
    /\ pc' = "done"
    /\ UNCHANGED <<out, loc>>

\* print(..., file=sys.stderr); sys.exit(code)
Die(msg, code) ==
    /\ err' = Append(err, msg)
    /\ exit' = code
    /\ pc' = "done"
    /\ UNCHANGED <<out, loc>>

\* f"ERROR: {response.status_code} - {response.text}"
HttpError(resp) == <<"ERROR: ", ToString(resp.status), " - ", "<response.text>">>

\* f"ERROR: {data.get('error', 'Unknown error')}"
SlackError(resp) == <<"ERROR: ", "<data.error>">>

\* main() returns normally
Finish(line) ==
    /\ out' = Append(out, line)
    /\ exit' = 0
    /\ pc' = "done"
    /\ UNCHANGED <<err, loc>>

-----------------------------------------------------------------------------
(* jira-cli.py: pure parts *)

LowerChar(ch) ==
    CASE ch = "D" -> "d"
      [] ch = "E" -> "e"
      [] ch = "G" -> "g"
      [] ch = "N" -> "n"
      [] ch = "O" -> "o"
      [] ch = "B" -> "b"
      [] ch = "I" -> "i"
      [] ch = "P" -> "p"
      [] ch = "R" -> "r"
      [] ch = "T" -> "t"
      [] OTHER -> ch

\* str.lower()
Lower(s) == [i \in 1..Len(s) |-> LowerChar(s[i])]

RECURSIVE Join(_, _)
\* sep.join(parts)
Join(parts, sep) ==
    IF parts = <<>> THEN <<>>
    ELSE IF Len(parts) = 1 THEN parts[1]
    ELSE parts[1] \o sep \o Join(Tail(parts), sep)

Names(transitions) == [i \in 1..Len(transitions) |-> transitions[i].name]

\* get_user_account_id, after search_users returned: the first user, or None
GetUserAccountId(users) == IF users = <<>> THEN None ELSE users[1]

\* a in b, for strings
Infix(a, b) == \E i \in 0..(Len(b) - Len(a)) : SubSeq(b, i + 1, i + Len(a)) = a

\* The bug of matching by containment, as clear_resolution does
TransitionMatchesInfix(t, name) == Infix(Lower(name), Lower(t.name))

\* transition_issue: t['name'].lower() == transition_name.lower()
TransitionMatches(t, name) == Lower(t.name) = Lower(name)

\* The bug of a loop without its break: the last match wins
FindTransitionLast(transitions, name) ==
    LET hits == {i \in 1..Len(transitions) : TransitionMatches(transitions[i], name)}
    IN  IF hits = {} THEN None
        ELSE transitions[CHOOSE i \in hits : \A j \in hits : i >= j].id

\* transition_issue: the for loop with its break
FindTransition(transitions, name) ==
    LET hits == {i \in 1..Len(transitions) : TransitionMatches(transitions[i], name)}
    IN  IF hits = {} THEN None
        ELSE transitions[CHOOSE i \in hits : \A j \in hits : i <= j].id

\* transition_issue: the error text of an unknown transition
TransitionNotFound(transitions, name) ==
    <<"ERROR: Transition '">> \o name \o <<"' not found. Available: ">>
        \o Join(Names(transitions), <<", ">>)

\* A payload field that is not there
NoField == <<"<no field>">>

\* The bug of setting the field without looking at the value
CreateAssigneeFieldAlways(assignee) == assignee

\* create_issue: "if assignee:" guards the assignee field of the payload
CreateAssigneeField(assignee) == IF Truthy(assignee) THEN assignee ELSE NoField

\* Expected statuses, per function
SearchUsersOk(resp) == resp.status = 200
CreateIssueOk(resp) == resp.status \in {200, 201}
\* The bug of not checking the status
LinkToEpicOkAny(resp) == TRUE
LinkToEpicOk(resp) == resp.status = 204
AssignIssueOk(resp) == resp.status = 204
UnassignIssueOk(resp) == resp.status = 204
UpdateFieldsOk(resp) == resp.status = 204
GetTransitionsOk(resp) == resp.status = 200
\* The bug of not checking the status
TransitionPostOkAny(resp) == TRUE
TransitionPostOk(resp) == resp.status = 204
\* The bug of not checking the status
AddCommentOkAny(resp) == TRUE
AddCommentOk(resp) == resp.status \in {200, 201}

\* main(), update: what follows the assignee change, and the summary change
AfterSummary(a) ==
    IF Truthy(a.transition) THEN "transition.get"
    ELSE IF Truthy(a.comment) THEN "update.comment"
    ELSE "update.end"

\* The bug of leaving out the summary change
AfterAssigneeSkipsSummary(a) == AfterSummary(a)

AfterAssignee(a) ==
    IF Truthy(a.summary) THEN "update.summary" ELSE AfterSummary(a)

\* transition_issue's transition_name: --transition, or the name clear_resolution chose
TransitionName ==
    IF args.action = "unresolve" THEN loc.transition ELSE args.transition
\* The bug of dropping the comment handed to transition_issue
TransitionCommentDropped == None
\* transition_issue's comment: --comment of update, None from clear_resolution
TransitionComment == IF args.action = "update" THEN args.comment ELSE None

-----------------------------------------------------------------------------
(* jira-cli.py: create *)

JiraCreateResolve ==
    /\ pc = "create.resolve"
    /\ \E resp \in Responses(UserListings) :
        /\ Issue(Request("GET", "search_users", None, args.assignee), resp)
        /\ IF resp.raised THEN Crash
           ELSE IF ~SearchUsersOk(resp) THEN Die(HttpError(resp), 2)
           ELSE LET id == GetUserAccountId(resp.ret) IN
                /\ loc' = [loc EXCEPT !.assignee_id = id]
                /\ err' = IF ~Truthy(id)
                          THEN Append(err, <<"WARNING: User '">> \o args.assignee
                                   \o <<"' not found, creating without assignee">>)
                          ELSE err
                /\ pc' = "create.post"
                /\ UNCHANGED <<out, exit>>
    /\ UNCHANGED creds
    /\ Static

JiraCreatePost ==
    /\ pc = "create.post"
    /\ \E resp \in Responses(IssueKeys) :
        /\ Issue(Request("POST", "create_issue", None,
                         CreateAssigneeField(loc.assignee_id)), resp)
        /\ IF resp.raised THEN Crash
           ELSE IF ~CreateIssueOk(resp) THEN Die(HttpError(resp), 2)
           ELSE LET issue_key == resp.ret IN
                /\ loc' = [loc EXCEPT !.issue_key = issue_key]
                /\ out' = Append(out, <<"Created: ">> \o issue_key)
                /\ IF Truthy(args.epic) /\ Truthy(issue_key)
                   THEN pc' = "create.link" /\ exit' = exit
                   ELSE pc' = "done" /\ exit' = 0
                /\ UNCHANGED err
    /\ UNCHANGED creds
    /\ Static

JiraCreateLink ==
    /\ pc = "create.link"
    /\ \E resp \in Responses({None}) :
        /\ Issue(Request("PUT", "link_to_epic", loc.issue_key, args.epic), resp)
        /\ IF resp.raised THEN Crash
           ELSE IF ~LinkToEpicOk(resp) THEN Die(HttpError(resp), 2)
           ELSE Finish(<<"Linked to epic: ">> \o args.epic)
    /\ UNCHANGED creds
    /\ Static

\* main(), link-epic
JiraLinkEpic ==
    /\ pc = "link-epic"
    /\ \E resp \in Responses({None}) :
        /\ Issue(Request("PUT", "link_to_epic", args.issue, args.epic), resp)
        /\ IF resp.raised THEN Crash
           ELSE IF ~LinkToEpicOk(resp) THEN Die(HttpError(resp), 2)
           ELSE Finish(<<"Linked ">> \o args.issue \o <<" to epic ">> \o args.epic)
    /\ UNCHANGED creds
    /\ Static

-----------------------------------------------------------------------------
(* jira-cli.py: assign *)

UnassignSentinel == <<"n", "o", "n", "e">>

\* The bug of comparing the argument as it was typed
IsUnassignExact(user) == user = UnassignSentinel

\* main(), assign: args.user.lower() == 'none'
IsUnassign(user) == Lower(user) = UnassignSentinel

\* unassign_issue: the PUT with accountId null
JiraUnassign ==
    /\ pc = "unassign"
    /\ \E resp \in Responses({None}) :
        /\ Issue(Request("PUT", "unassign_issue", args.issue, None), resp)
        /\ IF resp.raised THEN Crash
           ELSE IF ~UnassignIssueOk(resp) THEN Die(HttpError(resp), 2)
           ELSE Finish(<<"Unassigned ">> \o args.issue)
    /\ UNCHANGED creds
    /\ Static

\* main(), assign: get_user_account_id and the test of its result
JiraAssignResolve ==
    /\ pc = "assign.resolve"
    /\ \E resp \in Responses(UserListings) :
        /\ Issue(Request("GET", "search_users", None, args.user), resp)
        /\ IF resp.raised THEN Crash
           ELSE IF ~SearchUsersOk(resp) THEN Die(HttpError(resp), 2)
           ELSE LET id == GetUserAccountId(resp.ret) IN
                IF ~Truthy(id)
                THEN Die(<<"ERROR: User '">> \o args.user \o <<"' not found">>, 2)
                ELSE /\ loc' = [loc EXCEPT !.assignee_id = id]
                     /\ pc' = "assign.put"
                     /\ UNCHANGED <<out, err, exit>>
    /\ UNCHANGED creds
    /\ Static

\* main(), assign: assign_issue
JiraAssign ==
    /\ pc = "assign.put"
    /\ \E resp \in Responses({None}) :
        /\ Issue(Request("PUT", "assign_issue", args.issue, loc.assignee_id), resp)
        /\ IF resp.raised THEN Crash
           ELSE IF ~AssignIssueOk(resp) THEN Die(HttpError(resp), 2)
           ELSE Finish(<<"Assigned ">> \o args.issue \o <<" to ">> \o args.user)
    /\ UNCHANGED creds
    /\ Static

-----------------------------------------------------------------------------
(* jira-cli.py: update, with transition_issue and add_comment *)

\* The bug of assigning without looking at what the search returned
AssigneeFoundAlways(id) == TRUE

\* main(), update: "if assignee_id:"
AssigneeFound(id) == Truthy(id)

JiraUpdateAssignee ==
    /\ pc = "update.assignee"
    /\ \E resp \in Responses(UserListings) :
        /\ Issue(Request("GET", "search_users", None, args.assignee), resp)
        /\ IF resp.raised THEN Crash
           ELSE IF ~SearchUsersOk(resp) THEN Die(HttpError(resp), 2)
           ELSE LET id == GetUserAccountId(resp.ret) IN
                /\ loc' = [loc EXCEPT !.assignee_id = id]
                /\ IF AssigneeFound(id)
                   THEN pc' = "update.assign" /\ err' = err
                   ELSE /\ pc' = AfterAssignee(args)
                        /\ err' = Append(err, <<"WARNING: User '">> \o args.assignee
                                     \o <<"' not found">>)
                /\ UNCHANGED <<out, exit>>
    /\ UNCHANGED creds
    /\ Static

JiraUpdateAssign ==
    /\ pc = "update.assign"
    /\ \E resp \in Responses({None}) :
        /\ Issue(Request("PUT", "assign_issue", args.issue, loc.assignee_id), resp)
        /\ IF resp.raised THEN Crash
           ELSE IF ~AssignIssueOk(resp) THEN Die(HttpError(resp), 2)
           ELSE /\ out' = Append(out, <<"Assigned ">> \o args.issue \o <<" to ">>
                              \o args.assignee)
                /\ loc' = [loc EXCEPT !.updated = TRUE]
                /\ pc' = AfterAssignee(args)
                /\ UNCHANGED <<err, exit>>
    /\ UNCHANGED creds
    /\ Static

JiraUpdateSummary ==
    /\ pc = "update.summary"
    /\ \E resp \in Responses({None}) :
        /\ Issue(Request("PUT", "update_issue_fields", args.issue, args.summary), resp)
        /\ IF resp.raised THEN Crash
           ELSE IF ~UpdateFieldsOk(resp) THEN Die(HttpError(resp), 2)
           ELSE /\ out' = Append(out, <<"Updated summary of ">> \o args.issue)
                /\ loc' = [loc EXCEPT !.updated = TRUE]
                /\ pc' = AfterSummary(args)
                /\ UNCHANGED <<err, exit>>
    /\ UNCHANGED creds
    /\ Static

\* transition_issue, up to its POST: get_transitions and the name lookup
TransitionGet ==
    /\ pc = "transition.get"
    /\ \E resp \in Responses(IF args.action = "unresolve" THEN ReopenListings
                              ELSE TransitionListings) :
        /\ Issue(Request("GET", "get_transitions", args.issue, None), resp)
        /\ IF resp.raised THEN Crash
           ELSE IF ~GetTransitionsOk(resp) THEN Die(HttpError(resp), 2)
           ELSE LET transitions == resp.ret
                    transition_id == FindTransition(transitions, TransitionName)
                IN  IF ~Truthy(transition_id)
                    THEN Die(TransitionNotFound(transitions, TransitionName), 2)
                    ELSE /\ loc' = [loc EXCEPT !.transition_id = transition_id]
                         /\ pc' = "transition.post"
                         /\ UNCHANGED <<out, err, exit>>
    /\ UNCHANGED creds
    /\ Static

\* What main() does when transition_issue has returned
TransitionReturn ==
    IF args.action = "unresolve"
    THEN Finish(<<"Reopened ">> \o args.issue \o <<" -> ">> \o loc.transition)
    ELSE /\ out' = Append(out, <<"Transitioned ">> \o args.issue \o <<" to ">>
                                   \o TransitionName)
         /\ loc' = [loc EXCEPT !.updated = TRUE]
         /\ pc' = "update.end"
         /\ UNCHANGED <<err, exit>>

\* transition_issue: the POST, and the decision to comment
TransitionPost ==
    /\ pc = "transition.post"
    /\ \E resp \in Responses({None}) :
        /\ Issue(Request("POST", "transition", args.issue, loc.transition_id), resp)
        /\ IF resp.raised THEN Crash
           ELSE IF ~TransitionPostOk(resp) THEN Die(HttpError(resp), 2)
           ELSE IF Truthy(TransitionComment)
                THEN pc' = "transition.comment" /\ UNCHANGED <<out, err, exit, loc>>
                ELSE TransitionReturn
    /\ UNCHANGED creds
    /\ Static

\* add_comment, called by transition_issue or by main()
AddComment ==
    /\ pc \in {"transition.comment", "update.comment"}
    /\ \E resp \in Responses({None}) :
        /\ Issue(Request("POST", "add_comment", args.issue, args.comment), resp)
        /\ IF resp.raised THEN Crash
           ELSE IF ~AddCommentOk(resp) THEN Die(HttpError(resp), 2)
           ELSE IF pc = "transition.comment" THEN TransitionReturn
           ELSE /\ out' = Append(out, <<"Comment added to ">> \o args.issue)
                /\ loc' = [loc EXCEPT !.updated = TRUE]
                /\ pc' = "update.end"
                /\ UNCHANGED <<err, exit>>
    /\ UNCHANGED creds
    /\ Static

\* clear_resolution: the names that mark a transition back to an open state
\* (the two Korean names are one token each, written in Latin letters)
reopen_transitions ==
    << <<"<haeya hal il>">>, <<"<jinhaeng jung>">>, <<"T", "o", " ", "D", "o">>,
       <<"I", "n", " ", "P", "r", "o", "g", "r", "e", "s", "s">>,
       <<"R", "e", "o", "p", "e", "n">>, <<"B", "a", "c", "k", " ", "t", "o">> >>

\* clear_resolution: reopen.lower() in t['name'].lower(), for some reopen
IsReopen(t) ==
    \E k \in 1..Len(reopen_transitions) :
        Infix(Lower(reopen_transitions[k]), Lower(t.name))

\* The bug of taking the last transition that matches
FindReopenLast(transitions) ==
    LET hits == {i \in 1..Len(transitions) : IsReopen(transitions[i])}
    IN  IF hits = {} THEN None
        ELSE transitions[CHOOSE i \in hits : \A j \in hits : i >= j].name

\* clear_resolution: the name of the first transition that matches, or None
FindReopen(transitions) ==
    LET hits == {i \in 1..Len(transitions) : IsReopen(transitions[i])}
    IN  IF hits = {} THEN None
        ELSE transitions[CHOOSE i \in hits : \A j \in hits : i <= j].name

\* main(), unresolve: the lines written when clear_resolution found nothing
UnresolveFailed(transitions) ==
    << <<"Failed: ", "No reopen transition found">> >>
    \o IF transitions # <<>>
       THEN << <<"Available transitions: ">> \o Join(Names(transitions), <<", ">>) >>
       ELSE <<>>

\* clear_resolution: the first listing and the choice of a transition
JiraUnresolve ==
    /\ pc = "unresolve"
    /\ \E resp \in Responses(ReopenListings) :
        /\ Issue(Request("GET", "get_transitions", args.issue, None), resp)
        /\ IF resp.raised THEN Crash
           ELSE IF ~GetTransitionsOk(resp) THEN Die(HttpError(resp), 2)
           ELSE LET transitions == resp.ret
                    name == FindReopen(transitions)
                IN  IF name = None
                    THEN /\ err' = err \o UnresolveFailed(transitions)
                         /\ exit' = 2
                         /\ pc' = "done"
                         /\ UNCHANGED <<out, loc>>
                    ELSE /\ loc' = [loc EXCEPT !.transition = name]
                         /\ pc' = "transition.get"
                         /\ UNCHANGED <<out, err, exit>>
    /\ UNCHANGED creds
    /\ Static

\* The bug of leaving main() normally when nothing was updated
UpdateExitAlwaysOk(updated) == 0

\* main(), update: sys.exit(2) under "if not updated", else the normal return
UpdateExit(updated) == IF ~updated THEN 2 ELSE 0

\* main(), update: "if not updated"
JiraUpdateEnd ==
    /\ pc = "update.end"
    /\ err' = IF ~loc.updated
              THEN Append(err,
                  <<"ERROR: Specify --transition, --comment, --assignee, or --summary">>)
              ELSE err
    /\ exit' = UpdateExit(loc.updated)
    /\ pc' = "done"
    /\ UNCHANGED <<creds, http, out, loc>>
    /\ Static

-----------------------------------------------------------------------------
(* jira-cli.py: dates, labels, link *)

SetDatesOk(resp) == resp.status = 204
UpdateLabelsOk(resp) == resp.status = 204
LinkIssuesOk(resp) == resp.status \in {200, 201}
GetLinkTypesOk(resp) == resp.status = 200

\* The bug of not testing the flags
MissingDatesNever(a) == FALSE

\* main(), dates: not args.start and not args.due
MissingDates(a) == ~Truthy(a.start) /\ ~Truthy(a.due)

\* main(), labels: not args.add and not args.remove
MissingLabels(a) == ~Truthy(a.add) /\ ~Truthy(a.remove)

\* main(), link: args.from_issue and args.to_issue and args.link_type
CompleteLink(a) == Truthy(a.from_issue) /\ Truthy(a.to_issue) /\ Truthy(a.link_type)

\* set_dates: the fields of the payload
DateFields(a) ==
    (IF Truthy(a.start) THEN <<"start=">> \o a.start ELSE <<>>)
        \o (IF Truthy(a.due) THEN <<"due=">> \o a.due ELSE <<>>)

\* update_labels: the operations of the payload
LabelOps(a) ==
    (IF Truthy(a.add) THEN <<"add:">> \o a.add ELSE <<>>)
        \o (IF Truthy(a.remove) THEN <<"remove:">> \o a.remove ELSE <<>>)

\* main(), dates
JiraDates ==
    /\ pc = "dates"
    /\ IF MissingDates(args)
       THEN /\ Die(<<"ERROR: Specify --start and/or --due date">>, 2)
            /\ UNCHANGED http
       ELSE \E resp \in Responses({None}) :
            /\ Issue(Request("PUT", "set_dates", args.issue, DateFields(args)), resp)
            /\ IF resp.raised THEN Crash
               ELSE IF ~SetDatesOk(resp) THEN Die(HttpError(resp), 2)
               ELSE Finish(<<"Updated ">> \o args.issue \o <<": ">> \o DateFields(args))
    /\ UNCHANGED creds
    /\ Static

\* main(), labels
JiraLabels ==
    /\ pc = "labels"
    /\ IF MissingLabels(args)
       THEN /\ Die(<<"ERROR: Specify --add and/or --remove labels">>, 2)
            /\ UNCHANGED http
       ELSE \E resp \in Responses({None}) :
            /\ Issue(Request("PUT", "update_labels", args.issue, LabelOps(args)), resp)
            /\ IF resp.raised THEN Crash
               ELSE IF ~UpdateLabelsOk(resp) THEN Die(HttpError(resp), 2)
               ELSE Finish(<<"Updated ">> \o args.issue \o <<" labels: ">>
                               \o LabelOps(args))
    /\ UNCHANGED creds
    /\ Static

\* main(), link
JiraLink ==
    /\ pc = "link"
    /\ IF args.list_types
       THEN \E resp \in Responses({<<"<link types>">>}) :
            /\ Issue(Request("GET", "get_link_types", None, None), resp)
            /\ IF resp.raised THEN Crash
               ELSE IF ~GetLinkTypesOk(resp) THEN Die(HttpError(resp), 2)
               ELSE Finish(<<"Available link types:">>)
       ELSE IF CompleteLink(args)
       THEN \E resp \in Responses({None}) :
            /\ Issue(Request("POST", "link_issues", args.from_issue,
                             args.to_issue \o args.link_type), resp)
            /\ IF resp.raised THEN Crash
               ELSE IF ~LinkIssuesOk(resp) THEN Die(HttpError(resp), 2)
               ELSE Finish(<<"Linked ">> \o args.from_issue \o <<" -> ">>
                               \o args.to_issue)
       ELSE /\ Die(<<"ERROR: Specify --from, --to, --type or use --list-types">>, 2)
            /\ UNCHANGED http
    /\ UNCHANGED creds
    /\ Static

-----------------------------------------------------------------------------
(* confluence-cli.py: get, update *)

GetPageOk(resp) == resp.status = 200
PutPageOk(resp) == resp.status = 200

\* get_page: data.get('version', {}).get('number', 1)
VersionOf(body) == IF Len(body) = 0 THEN 1 ELSE body[1]

\* The bug of sending the version that was read
NextVersionSame(current) == current

\* update_page: the version number of the payload
NextVersion(current) == current + 1

\* get_page, called by main() for get or by update_page
ConfluenceGetPage ==
    /\ pc \in {"page.get", "update_page.get"}
    /\ \E resp \in Responses(PageBodies) :
        /\ Issue(Request("GET", "get_page", args.issue, None), resp)
        /\ IF resp.raised THEN Crash
           ELSE IF ~GetPageOk(resp) THEN Die(HttpError(resp), 2)
           ELSE IF pc = "page.get" THEN Finish(<<"<format_output(page)>">>)
           ELSE /\ loc' = [loc EXCEPT !.version = VersionOf(resp.ret)]
                /\ pc' = "update_page.put"
                /\ UNCHANGED <<out, err, exit>>
    /\ UNCHANGED creds
    /\ Static

\* update_page, after get_page returned
ConfluencePutPage ==
    /\ pc = "update_page.put"
    /\ \E resp \in Responses({None}) :
        /\ Issue(Request("PUT", "update_page", args.issue, NextVersion(loc.version)),
                 resp)
        /\ IF resp.raised THEN Crash
           ELSE IF ~PutPageOk(resp) THEN Die(HttpError(resp), 2)
           ELSE Finish(<<"Updated page ">> \o args.issue \o <<" to version ">>
                           \o <<ToString(NextVersion(loc.version))>>)
    /\ UNCHANGED creds
    /\ Static

-----------------------------------------------------------------------------
(* gitlab-cli.py: mrs *)

ListMergeRequestsOk(resp) == resp.status = 200

GitlabMrs ==
    /\ pc = "mrs"
    /\ \E resp \in Responses({<<"<merge requests>">>}) :
        /\ Issue(Request("GET", "list_merge_requests", None, None), resp)
        /\ IF resp.raised THEN Crash
           ELSE IF ~ListMergeRequestsOk(resp) THEN Die(HttpError(resp), 2)
           ELSE Finish(<<"<format_output(merge requests)>">>)
    /\ UNCHANGED creds
    /\ Static

-----------------------------------------------------------------------------
(* slack-cli.py *)

MinIdLen == 8

\* A Slack ID: a prefix letter and MinIdLen more characters
SlackId(prefix, last) ==
    <<prefix>> \o [i \in 1..(MinIdLen - 1) |-> "0"] \o <<last>>

\* A word of exactly MinIdLen characters: one too short for an ID
ShortId(prefix) == <<prefix>> \o [i \in 1..(MinIdLen - 1) |-> "0"]

ChannelItems ==
    {[id |-> SlackId("C", "1"), name |-> <<"g">>],
     [id |-> SlackId("C", "2"), name |-> <<"g">>],
     [id |-> SlackId("C", "3"), name |-> <<"h">>]}
ChannelListings == SeqsUpTo(ChannelItems, MaxList)

MemberItems ==
    {[id |-> SlackId("U", "1"), name |-> <<"b">>, display_name |-> <<"B">>],
     [id |-> SlackId("U", "2"), name |-> <<"x">>, display_name |-> <<"b">>]}
MemberListings == SeqsUpTo(MemberItems, MaxList)

\* Channel IDs conversations.open can return: a direct-message channel ("D..."),
\* and a "C..." conversation.
OpenedChannels == {SlackId("D", "1"), SlackId("C", "9")}

\* The bug of accepting a word of MinIdLen characters
IsChannelIdFromMinLen(channel) == StartsWith(channel, "C") /\ Len(channel) >= MinIdLen

\* resolve_channel: channel.startswith('C') and len(channel) > 8
IsChannelId(channel) == StartsWith(channel, "C") /\ Len(channel) > MinIdLen

\* resolve_user: user.startswith('U') and len(user) > 8
IsUserId(user) == StartsWith(user, "U") /\ Len(user) > MinIdLen

\* resolve_channel: the loop over data['channels']
FindChannel(channels, channel_name) ==
    LET hits == {i \in 1..Len(channels) : channels[i].name = channel_name}
    IN  IF hits = {} THEN None
        ELSE channels[CHOOSE i \in hits : \A j \in hits : i <= j].id

\* The bug of a loop that does not return at its first match
FindUserLast(members, user_name) ==
    LET hits == {i \in 1..Len(members) :
                    \/ members[i].name = user_name
                    \/ members[i].display_name = user_name}
    IN  IF hits = {} THEN None
        ELSE members[CHOOSE i \in hits : \A j \in hits : i >= j].id

\* resolve_user: the loop over data['members']
FindUser(members, user_name) ==
    LET hits == {i \in 1..Len(members) :
                    \/ members[i].name = user_name
                    \/ members[i].display_name = user_name}
    IN  IF hits = {} THEN None
        ELSE members[CHOOSE i \in hits : \A j \in hits : i <= j].id

\* The channel argument of send_message / get_history at its call site
ChannelParam == IF args.action = "dm" THEN loc.channel ELSE args.channel

AfterResolveChannel == IF args.action = "history" THEN "history" ELSE "postMessage"

\* resolve_channel, when the argument has the shape of an ID
SlackResolveChannelId ==
    /\ pc = "resolve_channel"
    /\ IsChannelId(ChannelParam)
    /\ loc' = [loc EXCEPT !.channel_id = ChannelParam]
    /\ pc' = AfterResolveChannel
    /\ UNCHANGED <<creds, http, out, err, exit>>
    /\ Static

\* resolve_channel, by conversations.list
SlackResolveChannelList ==
    /\ pc = "resolve_channel"
    /\ ~IsChannelId(ChannelParam)
    /\ \E resp \in SlackResponses(ChannelListings) :
        /\ Issue(Request("GET", "conversations.list", None, None), resp)
        /\ IF resp.raised THEN Crash
           ELSE IF ~resp.sok THEN Die(SlackError(resp), 2)
           ELSE LET id == FindChannel(resp.ret, LStrip(ChannelParam, {"#"})) IN
                IF id = None
                THEN Die(<<"ERROR: Channel '">> \o ChannelParam \o <<"' not found">>, 2)
                ELSE /\ loc' = [loc EXCEPT !.channel_id = id]
                     /\ pc' = AfterResolveChannel
                     /\ UNCHANGED <<out, err, exit>>
    /\ UNCHANGED creds
    /\ Static

\* send_message, after resolve_channel returned
SlackPostMessage ==
    /\ pc = "postMessage"
    /\ \E resp \in SlackResponses({<<"<ts>">>}) :
        /\ Issue(Request("POST", "chat.postMessage", None, loc.channel_id), resp)
        /\ IF resp.raised THEN Crash
           ELSE IF ~resp.sok THEN Die(SlackError(resp), 2)
           ELSE IF args.action = "dm" THEN Finish(<<"DM sent">>)
           ELSE Finish(<<"Message sent to ">> \o loc.channel_id)
    /\ UNCHANGED creds
    /\ Static

\* get_history, after resolve_channel returned
SlackHistory ==
    /\ pc = "history"
    /\ \E resp \in SlackResponses({<<"<messages>">>}) :
        /\ Issue(Request("GET", "conversations.history", None, loc.channel_id), resp)
        /\ IF resp.raised THEN Crash
           ELSE IF ~resp.sok THEN Die(SlackError(resp), 2)
           ELSE Finish(<<"<format_output(messages)>">>)
    /\ UNCHANGED creds
    /\ Static

\* list_channels
SlackChannels ==
    /\ pc = "channels"
    /\ \E resp \in SlackResponses({<<"<channels>">>}) :
        /\ Issue(Request("GET", "conversations.list", None, None), resp)
        /\ IF resp.raised THEN Crash
           ELSE IF ~resp.sok THEN Die(SlackError(resp), 2)
           ELSE Finish(<<"<format_output(channels)>">>)
    /\ UNCHANGED creds
    /\ Static

\* resolve_user, when the argument has the shape of an ID
SlackResolveUserId ==
    /\ pc = "resolve_user"
    /\ IsUserId(args.user)
    /\ loc' = [loc EXCEPT !.user_id = args.user]
    /\ pc' = "open"
    /\ UNCHANGED <<creds, http, out, err, exit>>
    /\ Static

\* resolve_user, by users.list
SlackResolveUserList ==
    /\ pc = "resolve_user"
    /\ ~IsUserId(args.user)
    /\ \E resp \in SlackResponses(MemberListings) :
        /\ Issue(Request("GET", "users.list", None, None), resp)
        /\ IF resp.raised THEN Crash
           ELSE IF ~resp.sok THEN Die(SlackError(resp), 2)
           ELSE LET id == FindUser(resp.ret, LStrip(args.user, {"@"})) IN
                IF id = None
                THEN Die(<<"ERROR: User '">> \o args.user \o <<"' not found">>, 2)
                ELSE /\ loc' = [loc EXCEPT !.user_id = id]
                     /\ pc' = "open"
                     /\ UNCHANGED <<out, err, exit>>
    /\ UNCHANGED creds
    /\ Static

\* send_dm: conversations.open, then the call of send_message
SlackOpen ==
    /\ pc = "open"
    /\ \E resp \in SlackResponses(OpenedChannels) :
        /\ Issue(Request("POST", "conversations.open", None, loc.user_id), resp)
        /\ IF resp.raised THEN Crash
           ELSE IF ~resp.sok THEN Die(SlackError(resp), 2)
           ELSE /\ loc' = [loc EXCEPT !.channel = resp.ret]
                /\ pc' = "resolve_channel"
                /\ UNCHANGED <<out, err, exit>>
    /\ UNCHANGED creds
    /\ Static

-----------------------------------------------------------------------------
(* format_output of each client *)

\* A record is a function from the names of the fields it has to their values;
\* data is a list of records, or one record (a dict)
List(items) == [list |-> TRUE, items |-> items]
Dict(item) == [list |-> FALSE, items |-> <<item>>]

\* 'f' in item, item.get('f', default)
Has(item, f) == f \in DOMAIN item
Get(item, f, default) == IF Has(item, f) THEN item[f] ELSE default

\* s[:n]
Prefix(s, n) == SubSeq(s, 1, IF Len(s) < n THEN Len(s) ELSE n)

FieldOrder ==
    <<"key", "id", "iid", "name", "title", "summary", "status", "state", "assignee",
      "author", "space", "excerpt", "ref", "merged", "topic", "user", "text",
      "content">>

RECURSIVE JsonFields(_, _)
JsonFields(item, fs) ==
    IF fs = <<>> THEN <<>>
    ELSE (IF Has(item, Head(fs)) THEN <<Head(fs), ": ">> \o item[Head(fs)] \o <<";">>
          ELSE <<>>) \o JsonFields(item, Tail(fs))

JsonItem(item) == <<"{">> \o JsonFields(item, FieldOrder) \o <<"}">>

\* json.dumps(data, ...), with indent=2 or without
JsonDumps(data, indent) ==
    IF ~data.list THEN JsonItem(data.items[1])
    ELSE IF data.items = <<>> THEN <<"[]">>
    ELSE LET nl == IF indent THEN <<"\n">> ELSE <<>>
             sep == IF indent THEN <<",", "\n">> ELSE <<", ">>
         IN  <<"[">> \o nl
                 \o Join([i \in 1..Len(data.items) |-> JsonItem(data.items[i])], sep)
                 \o nl \o <<"]">>

RECURSIVE Flatten(_)
\* The lines a loop has appended, in order
Flatten(seqs) == IF seqs = <<>> THEN <<>> ELSE Head(seqs) \o Flatten(Tail(seqs))

\* The bug of ending every line, the last one too, with a newline
LinesTerminated(lines) == Flatten([i \in 1..Len(lines) |-> lines[i] \o <<"\n">>])

\* '\n'.join(lines)
Lines(lines) == Join(lines, <<"\n">>)

HasKey(item) == Has(item, "key")
HasId(item) == Has(item, "id")

\* The bug of one message for every client
NoResultsFound(c) == <<"No results found">>

\* The literal a client returns for a summary without lines
NoResults(c) ==
    IF c \in {"jira", "confluence"} THEN <<"No results found">> ELSE <<"No results">>

\* jira-cli.py format_output
JiraSummaryLine(item) ==
    item["key"] \o <<": ">> \o Get(item, "summary", <<>>) \o <<" [">>
        \o Get(item, "status", <<>>) \o <<"]">>

JiraListLine(item) ==
    JiraSummaryLine(item)
        \o (IF Truthy(Get(item, "assignee", None))
            THEN <<" @">> \o item["assignee"] ELSE <<>>)

JiraTableLine(item) ==
    Get(item, "key", <<>>) \o <<"\t">> \o Get(item, "status", <<>>) \o <<"\t">>
        \o Get(item, "assignee", <<"-">>) \o <<"\t">>
        \o Prefix(Get(item, "summary", <<>>), 50)

JiraSummary(data) ==
    IF data.list
    THEN LET rows == SelectSeq(data.items, HasKey)
             lines == [i \in 1..Len(rows) |-> JiraListLine(rows[i])]
         IN  IF lines # <<>> THEN Lines(lines) ELSE NoResults("jira")
    ELSE IF HasKey(data.items[1]) THEN JiraSummaryLine(data.items[1])
    ELSE JsonDumps(data, FALSE)

JiraFormatOutput(data, format_type) ==
    IF format_type = "full" THEN JsonDumps(data, TRUE)
    ELSE IF format_type = "keys"
    THEN IF data.list
         THEN LET rows == SelectSeq(data.items, HasKey)
              IN  Lines([i \in 1..Len(rows) |-> Get(rows[i], "key", <<>>)])
         ELSE Get(data.items[1], "key", <<>>)
    ELSE IF format_type = "table" /\ data.list /\ data.items # <<>>
    THEN Lines(<< <<"KEY\tSTATUS\tASSIGNEE\tSUMMARY">> >>
                   \o [i \in 1..Len(data.items) |-> JiraTableLine(data.items[i])])
    ELSE JiraSummary(data)

\* confluence-cli.py format_output
ConfluenceListLine(item) ==
    <<"[">> \o Get(item, "id", <<>>) \o <<"] ">> \o Get(item, "title", <<>>)
        \o (IF Truthy(Get(item, "space", None))
            THEN <<" (">> \o item["space"] \o <<")">> ELSE <<>>)
        \o (IF Truthy(Get(item, "excerpt", None))
            THEN <<"\n    ">> \o Prefix(item["excerpt"], 100) \o <<"...">> ELSE <<>>)

ConfluenceSummary(data) ==
    IF data.list
    THEN LET lines == [i \in 1..Len(data.items) |-> ConfluenceListLine(data.items[i])]
         IN  IF lines # <<>> THEN Lines(lines) ELSE NoResults("confluence")
    ELSE <<"[">> \o Get(data.items[1], "id", <<>>) \o <<"] ">>
             \o Get(data.items[1], "title", <<>>)

ConfluenceFormatOutput(data, format_type) ==
    IF format_type = "full" THEN JsonDumps(data, TRUE)
    ELSE IF format_type = "ids"
    THEN IF data.list
         THEN LET rows == SelectSeq(data.items, HasId)
              IN  Lines([i \in 1..Len(rows) |-> Get(rows[i], "id", <<>>)])
         ELSE Get(data.items[1], "id", <<>>)
    ELSE IF format_type = "markdown" /\ ~data.list /\ Has(data.items[1], "content")
    THEN data.items[1]["content"]
    ELSE ConfluenceSummary(data)

\* gitlab-cli.py format_output
GitlabId(item) == Get(item, "id", Get(item, "iid", <<>>))

GitlabLine(item) ==
    IF Has(item, "iid") /\ Has(item, "title")
    THEN << <<"!">> \o item["iid"] \o <<": ">> \o item["title"] \o <<" [">>
                \o Get(item, "state", <<>>) \o <<"]">>
                \o (IF Truthy(Get(item, "author", None))
                    THEN <<" @">> \o item["author"] ELSE <<>>) >>
    ELSE IF Has(item, "id") /\ Has(item, "status")
    THEN << <<"#">> \o item["id"] \o <<": ">> \o Get(item, "ref", <<>>) \o <<" [">>
                \o item["status"] \o <<"]">> >>
    ELSE IF Has(item, "name")
    THEN << item["name"] \o (IF Truthy(Get(item, "merged", None))
                             THEN <<" (merged)">> ELSE <<>>) >>
    ELSE <<>>

GitlabFormatOutput(data, format_type) ==
    IF format_type = "full" THEN JsonDumps(data, TRUE)
    ELSE IF format_type = "ids"
    THEN IF data.list
         THEN Lines([i \in 1..Len(data.items) |-> GitlabId(data.items[i])])
         ELSE GitlabId(data.items[1])
    ELSE IF data.list
    THEN LET lines == Flatten([i \in 1..Len(data.items) |-> GitlabLine(data.items[i])])
         IN  IF lines # <<>> THEN Lines(lines) ELSE NoResults("gitlab")
    ELSE JsonDumps(data, FALSE)

\* slack-cli.py format_output
SlackLine(item) ==
    IF Has(item, "name")
    THEN << <<"#">> \o item["name"]
                \o (IF Truthy(Get(item, "topic", None))
                    THEN <<" - ">> \o Prefix(item["topic"], 50) ELSE <<>>) >>
    ELSE IF Has(item, "text")
    THEN << <<"@">> \o Get(item, "user", <<"unknown">>) \o <<": ">>
                \o Prefix(item["text"], 100) >>
    ELSE <<>>

SlackFormatOutput(data, format_type) ==
    IF format_type = "full" THEN JsonDumps(data, TRUE)
    ELSE IF format_type = "ids"
    THEN IF data.list
         THEN LET rows == SelectSeq(data.items, HasId)
              IN  Lines([i \in 1..Len(rows) |-> Get(rows[i], "id", <<>>)])
         ELSE Get(data.items[1], "id", <<>>)
    ELSE IF data.list
    THEN LET lines == Flatten([i \in 1..Len(data.items) |-> SlackLine(data.items[i])])
         IN  IF lines # <<>> THEN Lines(lines) ELSE NoResults("slack")
    ELSE JsonDumps(data, FALSE)

FormatOutputOf(c, data, format_type) ==
    CASE c = "jira" -> JiraFormatOutput(data, format_type)
      [] c = "confluence" -> ConfluenceFormatOutput(data, format_type)
      [] c = "gitlab" -> GitlabFormatOutput(data, format_type)
      [] c = "slack" -> SlackFormatOutput(data, format_type)

\* print(format_output(result, args.format))
CallFormatOutput ==
    /\ pc = "format_output"
    /\ out' = Append(out, FormatOutputOf(client, loc.data, args.format))
    /\ pc' = "done"
    /\ exit' = 0
    /\ UNCHANGED <<creds, http, err, loc>>
    /\ Static

-----------------------------------------------------------------------------
(* main(): usage, credentials, dispatch *)

\* The first call of each subcommand
Entry(c, a) ==
    CASE c = "jira" /\ a.action = "create" ->
             IF Truthy(a.assignee) THEN "create.resolve" ELSE "create.post"
      [] c = "jira" /\ a.action = "update" ->
             IF Truthy(a.assignee) THEN "update.assignee" ELSE AfterAssignee(a)
      [] c = "jira" /\ a.action = "assign" ->
             IF IsUnassign(a.user) THEN "unassign" ELSE "assign.resolve"
      [] c = "jira" /\ a.action = "link-epic" -> "link-epic"
      [] c = "jira" /\ a.action = "unresolve" -> "unresolve"
      [] c = "jira" /\ a.action = "dates" -> "dates"
      [] c = "jira" /\ a.action = "labels" -> "labels"
      [] c = "jira" /\ a.action = "link" -> "link"
      [] c = "confluence" /\ a.action = "get" -> "page.get"
      [] c = "confluence" /\ a.action = "update" -> "update_page.get"
      [] c = "gitlab" /\ a.action = "mrs" -> "mrs"
      [] c = "slack" /\ a.action = "send" -> "resolve_channel"
      [] c = "slack" /\ a.action = "history" -> "resolve_channel"
      [] c = "slack" /\ a.action = "dm" -> "resolve_user"
      [] c = "slack" /\ a.action = "channels" -> "channels"

\* The bug of resolving the credentials before looking at args.action
MainUsageAfterLoad ==
    /\ pc = "start"
    /\ args.action = NoAction
    /\ creds' = LoadCredentialsOf(client, env, file)
    /\ out' = Append(out, <<"<usage>">>)
    /\ exit' = 1
    /\ pc' = "done"
    /\ UNCHANGED <<http, err, loc>>
    /\ Static

\* if not args.action: parser.print_help(); sys.exit(1)
MainUsage ==
    /\ pc = "start"
    /\ args.action = NoAction
    /\ out' = Append(out, <<"<usage>">>)
    /\ exit' = 1
    /\ pc' = "done"
    /\ UNCHANGED <<creds, http, err, loc>>
    /\ Static

\* load_credentials() as main() calls it, and the dispatch on args.action
LoadCredentials ==
    /\ pc = "start"
    /\ args.action # NoAction
    /\ LET r == LoadCredentialsOf(client, env, file) IN
        /\ creds' = r
        /\ IF r.ok
           THEN /\ pc' = Entry(client, args)
                /\ UNCHANGED <<err, exit>>
           ELSE /\ err' = err \o << <<"ERROR: ", client, " credentials not configured.">>,
                                    <<"Run: python setup-wizard.py --service ", client>> >>
                /\ exit' = 1
                /\ pc' = "done"
    /\ UNCHANGED <<http, out, loc>>
    /\ Static

-----------------------------------------------------------------------------
(* Initial states *)

NoLocals ==
    [assignee_id |-> None, issue_key |-> None, transition_id |-> None,
     updated |-> FALSE, version |-> 0, user_id |-> None, channel |-> None,
     channel_id |-> None, resolved |-> <<>>, data |-> List(<<>>),
     config |-> <<>>, results |-> <<>>, transition |-> None]

NoFile == [exists |-> FALSE, lines |-> <<>>]

EnvEmpty == [f \in AllFields |-> None]
EnvFull(c) == [f \in AllFields |-> IF f \in Fields(c) THEN <<"e">> ELSE None]

FileLine(c, f) == <<KeyOf(c, f), "=", "f">>
IsCredLine(line) == line[1] # "<no key>"
FileFull(c) ==
    [exists |-> TRUE,
     lines |-> SelectSeq(<<FileLine(c, "base_url"), FileLine(c, "email"),
                           FileLine(c, "token")>>, IsCredLine)]

\* --user of jira assign: the sentinel in three spellings, and other words
AssignUsers ==
    {<<"n", "o", "n", "e">>, <<"N", "O", "N", "E">>, <<"N", "o", "n", "E">>,
     <<"n", "o", "n">>, <<"b", "o", "b">>, <<>>}

JiraArgs ==
    {[NoArgs EXCEPT !.action = "create", !.assignee = a, !.epic = e] :
        a \in Opt({<<"bob">>}), e \in Opt({EpicArg})}
    \cup {[NoArgs EXCEPT !.action = "update", !.issue = IssueArg, !.assignee = a,
                         !.summary = s, !.transition = t, !.comment = c] :
        a \in Opt({<<"bob">>}), s \in Opt({<<"S">>}),
        t \in Opt({<<"D", "O">>, <<"g", "o">>, <<"d">>}), c \in Opt({<<"hi">>})}
    \cup {[NoArgs EXCEPT !.action = "assign", !.issue = IssueArg, !.user = u] :
        u \in AssignUsers}
    \cup {[NoArgs EXCEPT !.action = "link-epic", !.issue = IssueArg, !.epic = EpicArg]}
    \cup {[NoArgs EXCEPT !.action = "unresolve", !.issue = IssueArg]}
    \cup {[NoArgs EXCEPT !.action = "dates", !.issue = IssueArg, !.start = x,
                         !.due = y] :
        x \in Opt({<<"2026-01-01">>}), y \in Opt({<<"2026-02-01">>})}
    \cup {[NoArgs EXCEPT !.action = "labels", !.issue = IssueArg, !.add = x,
                         !.remove = y] :
        x \in Opt({<<"l1">>}), y \in Opt({<<"l2">>})}
    \cup {[NoArgs EXCEPT !.action = "link", !.from_issue = x, !.to_issue = y,
                         !.link_type = z, !.list_types = l] :
        x \in Opt({IssueArg}), y \in Opt({EpicArg}), z \in {None, <<"Blocks">>},
        l \in BOOLEAN}

ConfluenceArgs ==
    {[NoArgs EXCEPT !.action = a, !.issue = PageArg] : a \in {"get", "update"}}

GitlabArgs == {[NoArgs EXCEPT !.action = "mrs"]}

SlackArgs ==
    {[NoArgs EXCEPT !.action = a, !.channel = ch] :
        a \in {"send", "history"},
        ch \in {SlackId("C", "1"), ShortId("C"), <<"#", "g">>, <<"g">>, <<"C", "g">>}}
    \cup {[NoArgs EXCEPT !.action = "dm", !.user = u] :
        u \in {SlackId("U", "1"), ShortId("U"), <<"@", "b">>, <<"b">>, <<"z">>}}
    \cup {[NoArgs EXCEPT !.action = "channels"]}

ArgsOf(c) ==
    CASE c = "jira" -> JiraArgs
      [] c = "confluence" -> ConfluenceArgs
      [] c = "gitlab" -> GitlabArgs
      [] c = "slack" -> SlackArgs

\* One single-call subcommand of each client
SimpleArgsOf(c) ==
    {a \in ArgsOf(c) : a.action \in {"link-epic", "get", "mrs", "channels"}}

InitProcess ==
    /\ creds = NoCreds
    /\ pc = "start"
    /\ http = <<>>
    /\ out = <<>>
    /\ err = <<>>
    /\ exit = Running
    /\ loc = NoLocals

\* Every subcommand, with the credentials in the environment, in the file, or nowhere
Init ==
    /\ client \in Clients
    /\ args \in ArgsOf(client) \cup {NoArgs}
    /\ \E scenario \in {<<EnvFull(client), NoFile>>, <<EnvEmpty, FileFull(client)>>,
                        <<EnvEmpty, NoFile>>} :
        env = scenario[1] /\ file = scenario[2]
    /\ InitProcess

EnvValues == {None, <<>>, <<"e">>, <<"e", "/">>}
RawValues == {<<>>, <<"f">>, <<"'", "g", "/", "'">>}

CredLines(c) ==
    {<<KeyOf(c, f), "=">> \o v : f \in Fields(c), v \in RawValues}
    \cup {<<"#", KeyOf(c, "token"), "=", "f">>,
          <<" ", KeyOf(c, "token"), "=", "h", "=", "h", " ">>,
          <<"OTHER_KEY", "=", "f">>,
          <<"junk">>}

\* Every environment and credentials file within the bounds, one subcommand per client
InitCred ==
    /\ client \in Clients
    /\ args \in SimpleArgsOf(client) \cup {NoArgs}
    /\ env \in {e \in [AllFields -> EnvValues] :
                   \A f \in AllFields \ Fields(client) : e[f] = None}
    /\ file \in {NoFile} \cup
                {[exists |-> TRUE, lines |-> l] :
                    l \in SeqsUpTo(CredLines(client), MaxLines)}
    /\ InitProcess

-----------------------------------------------------------------------------
(* Specifications *)

Next ==
    \/ MainUsage
    \/ LoadCredentials
    \/ JiraCreateResolve
    \/ JiraCreatePost
    \/ JiraCreateLink
    \/ JiraLinkEpic
    \/ JiraUnassign
    \/ JiraAssignResolve
    \/ JiraAssign
    \/ JiraDates
    \/ JiraLabels
    \/ JiraLink
    \/ JiraUpdateAssignee
    \/ JiraUpdateAssign
    \/ JiraUpdateSummary
    \/ TransitionGet
    \/ TransitionPost
    \/ AddComment
    \/ JiraUpdateEnd
    \/ JiraUnresolve
    \/ ConfluenceGetPage
    \/ ConfluencePutPage
    \/ GitlabMrs
    \/ SlackResolveChannelId
    \/ SlackResolveChannelList
    \/ SlackPostMessage
    \/ SlackHistory
    \/ SlackChannels
    \/ SlackResolveUserId
    \/ SlackResolveUserList
    \/ SlackOpen

Spec == Init /\ [][Next]_vars

NextCred ==
    \/ MainUsage
    \/ LoadCredentials
    \/ JiraLinkEpic
    \/ ConfluenceGetPage
    \/ GitlabMrs
    \/ SlackChannels

SpecCred == InitCred /\ [][NextCred]_vars

\* Records format_output is given, per client
FormatItems(c) ==
    CASE c = "jira" ->
             {[key |-> <<"K1">>, summary |-> <<"s">>, status |-> <<"Open">>,
               assignee |-> <<"bob">>],
              [key |-> <<"K2">>],
              [summary |-> <<"t">>]}
      [] c = "confluence" ->
             {[id |-> <<"1">>, title |-> <<"T">>, space |-> <<"SP">>,
               excerpt |-> <<"x">>],
              [id |-> <<"2">>, title |-> <<"U">>, content |-> <<"text">>],
              [title |-> <<"V">>]}
      [] c = "gitlab" ->
             {[iid |-> <<"7">>, title |-> <<"MR">>, state |-> <<"opened">>,
               author |-> <<"al">>],
              [id |-> <<"9">>, status |-> <<"ok">>, ref |-> <<"main">>],
              [name |-> <<"br">>, merged |-> <<"True">>]}
      [] c = "slack" ->
             {[id |-> <<"C1">>, name |-> <<"g">>, topic |-> <<"t">>],
              [text |-> <<"hi">>, user |-> <<"U1">>],
              [id |-> <<"C2">>]}

FormatData(c) ==
    {List(l) : l \in SeqsUpTo(FormatItems(c), MaxList)}
        \cup {Dict(i) : i \in FormatItems(c)}

FormatTypes == {"summary", "keys", "ids", "table", "markdown", "full"}

\* format_output applied to every data and format type within the bounds
InitFormat ==
    /\ client \in Clients
    /\ args \in {[NoArgs EXCEPT !.action = "format", !.format = t] : t \in FormatTypes}
    /\ env = EnvEmpty
    /\ file = NoFile
    /\ creds = NoCreds
    /\ pc = "format_output"
    /\ http = <<>>
    /\ out = <<>>
    /\ err = <<>>
    /\ exit = Running
    /\ loc \in {[NoLocals EXCEPT !.data = d] : d \in FormatData(client)}

NextFormat == CallFormatOutput

SpecFormat == InitFormat /\ [][NextFormat]_vars

-----------------------------------------------------------------------------
(* test-connection.py *)

TestKeys ==
    {"JIRA_BASE_URL", "JIRA_EMAIL", "JIRA_API_TOKEN",
     "CONFLUENCE_BASE_URL", "CONFLUENCE_EMAIL", "CONFLUENCE_API_TOKEN",
     "SLACK_BOT_TOKEN", "GITLAB_TOKEN", "GITLAB_BASE_URL"}

\* load_config: config[key] = value.strip('"\'') for a line with '='
ConfigLine(acc, line) ==
    LET l == Strip(line, Whitespace) IN
    IF Contains(l, "=") /\ ~StartsWith(l, "#")
    THEN LET key == SplitKey(l)
             value == Strip(SplitValue(l), QuoteChars)
         IN  [k \in TestKeys |-> IF key = <<k>> THEN value ELSE acc[k]]
    ELSE acc

RECURSIVE ReadConfig(_, _)
ReadConfig(acc, lines) ==
    IF lines = <<>> THEN acc
    ELSE ReadConfig(ConfigLine(acc, Head(lines)), Tail(lines))

\* load_config: the file alone; a key that is not set is None to config.get
LoadConfig(f) ==
    IF f.exists THEN ReadConfig([k \in TestKeys |-> None], f.lines)
    ELSE [k \in TestKeys |-> None]

\* The conditions under which test_all probes a service
JiraProbed(config) ==
    Truthy(config["JIRA_BASE_URL"]) /\ Truthy(config["JIRA_API_TOKEN"])
ConfluenceProbed(config) ==
    Truthy(config["CONFLUENCE_BASE_URL"]) /\ Truthy(config["CONFLUENCE_API_TOKEN"])
SlackProbed(config) == Truthy(config["SLACK_BOT_TOKEN"])
GitlabProbed(config) == Truthy(config["GITLAB_TOKEN"])

\* What a probe's request can come back with
ProbeResponses ==
    {Raised}
    \cup {[status |-> st, sok |-> FALSE, raised |-> FALSE, ret |-> None] :
             st \in {200, 401}}

SlackProbeResponses ==
    {Raised}
    \cup {[status |-> 200, sok |-> ok, raised |-> FALSE, ret |-> None] :
             ok \in BOOLEAN}

\* The bug of taking all([]) for success
TestReturnAll(results) == IF \A i \in 1..Len(results) : results[i] THEN 0 ELSE 1

\* test_all: the value it returns
TestReturn(results) ==
    IF results # <<>>
    THEN IF \A i \in 1..Len(results) : results[i] THEN 0 ELSE 1
    ELSE 1

\* One probe has ended: its line is printed and its result noted
Probed(name, text, ok, next) ==
    /\ out' = Append(out, <<name>> \o text)
    /\ loc' = [loc EXCEPT !.results = Append(@, ok)]
    /\ pc' = next
    /\ UNCHANGED <<err, exit>>

Skipped(name, next) ==
    /\ out' = Append(out, <<name, ": Not configured">>)
    /\ pc' = next
    /\ UNCHANGED <<err, exit, loc, http>>

\* A probe that tests response.status_code == 200
StatusProbe(name, op, url, next) ==
    \E resp \in ProbeResponses :
        /\ Issue(Request("GET", op, None, url), resp)
        /\ IF resp.raised THEN Probed(name, <<": ", "<exception>">>, FALSE, next)
           ELSE IF resp.status = 200 THEN Probed(name, <<": OK">>, TRUE, next)
           ELSE Probed(name, <<": HTTP ", ToString(resp.status)>>, FALSE, next)

\* test_all: config = load_config() and the header
TestLoadConfig ==
    /\ pc = "test.start"
    /\ loc' = [loc EXCEPT !.config = LoadConfig(file)]
    /\ out' = out \o << <<"Enterprise Tools - Connection Test">>, <<"====">> >>
    /\ pc' = "test.jira"
    /\ UNCHANGED <<creds, http, err, exit>>
    /\ Static

\* test_all: Jira
TestJira ==
    /\ pc = "test.jira"
    /\ IF JiraProbed(loc.config)
       THEN IF loc.config["JIRA_EMAIL"] = None
            THEN /\ Probed("Jira", <<": ", "<exception>">>, FALSE, "test.confluence")
                 /\ UNCHANGED http
            ELSE StatusProbe("Jira", "jira.myself",
                             RStrip(loc.config["JIRA_BASE_URL"], {"/"}),
                             "test.confluence")
       ELSE Skipped("Jira", "test.confluence")
    /\ UNCHANGED creds
    /\ Static

\* test_all: Confluence
TestConfluence ==
    /\ pc = "test.confluence"
    /\ IF ConfluenceProbed(loc.config)
       THEN IF loc.config["CONFLUENCE_EMAIL"] = None
            THEN /\ Probed("Confluence", <<": ", "<exception>">>, FALSE, "test.slack")
                 /\ UNCHANGED http
            ELSE StatusProbe("Confluence", "confluence.current",
                             RStrip(loc.config["CONFLUENCE_BASE_URL"], {"/"}),
                             "test.slack")
       ELSE Skipped("Confluence", "test.slack")
    /\ UNCHANGED creds
    /\ Static

\* test_all: Slack
TestSlack ==
    /\ pc = "test.slack"
    /\ IF SlackProbed(loc.config)
       THEN \E resp \in SlackProbeResponses :
            /\ Issue(Request("GET", "slack.auth.test", None, None), resp)
            /\ IF resp.raised
               THEN Probed("Slack", <<": ", "<exception>">>, FALSE, "test.gitlab")
               ELSE IF resp.sok THEN Probed("Slack", <<": OK">>, TRUE, "test.gitlab")
               ELSE Probed("Slack", <<": ", "<data.error>">>, FALSE, "test.gitlab")
       ELSE Skipped("Slack", "test.gitlab")
    /\ UNCHANGED creds
    /\ Static

\* test_all: GitLab
TestGitlab ==
    /\ pc = "test.gitlab"
    /\ IF GitlabProbed(loc.config)
       THEN LET base_url == IF loc.config["GITLAB_BASE_URL"] = None
                            THEN GitlabDefaultUrl
                            ELSE loc.config["GITLAB_BASE_URL"]
            IN  StatusProbe("GitLab", "gitlab.user", RStrip(base_url, {"/"}),
                            "test.result")
       ELSE Skipped("GitLab", "test.result")
    /\ UNCHANGED creds
    /\ Static

\* test_all: the summary, and sys.exit(test_all())
TestResult ==
    /\ pc = "test.result"
    /\ out' = out \o << <<"====">>,
                        IF loc.results # <<>>
                        THEN <<"Result: services connected">>
                        ELSE <<"No services configured. Run setup-wizard.py">> >>
    /\ exit' = TestReturn(loc.results)
    /\ pc' = "done"
    /\ UNCHANGED <<creds, http, err, loc>>
    /\ Static

\* The entries of one service in credentials.env: none, all, or the first n keys
ConfigEntry(keys, n) == [i \in 1..n |-> <<keys[i], "=", "f">>]

JiraEntries ==
    {ConfigEntry(<<"JIRA_BASE_URL", "JIRA_API_TOKEN", "JIRA_EMAIL">>, n) : n \in 0..3}
ConfluenceEntries ==
    {ConfigEntry(<<"CONFLUENCE_BASE_URL", "CONFLUENCE_API_TOKEN",
                   "CONFLUENCE_EMAIL">>, n) : n \in 0..3}
SlackEntries ==
    {ConfigEntry(<<"SLACK_BOT_TOKEN">>, n) : n \in 0..1}
    \cup {<< <<"SLACK_BOT_TOKEN", "=">> >>}
GitlabEntries == {ConfigEntry(<<"GITLAB_TOKEN", "GITLAB_BASE_URL">>, n) : n \in 0..2}

TestFiles ==
    {NoFile}
    \cup {[exists |-> TRUE, lines |-> j \o c \o s \o g] :
            j \in JiraEntries, c \in ConfluenceEntries,
            s \in SlackEntries, g \in GitlabEntries}

\* os.environ: no credential, or every credential
TestEnvs == {[k \in TestKeys |-> v] : v \in {None, <<"e">>}}

InitTest ==
    /\ client = "test-connection"
    /\ args = NoArgs
    /\ env \in TestEnvs
    /\ file \in TestFiles
    /\ creds = NoCreds
    /\ pc = "test.start"
    /\ http = <<>>
    /\ out = <<>>
    /\ err = <<>>
    /\ exit = Running
    /\ loc = NoLocals

NextTest ==
    \/ TestLoadConfig
    \/ TestJira
    \/ TestConfluence
    \/ TestSlack
    \/ TestGitlab
    \/ TestResult

SpecTest == InitTest /\ [][NextTest]_vars

-----------------------------------------------------------------------------
(* The resolver functions called twice with the same input in one process *)

\* What a caller notes when a resolver returns: the ID, and how many HTTP
\* requests the process has issued by then
Returns(id, requests) == [id |-> id, requests |-> requests]

AfterCall == IF pc = "resolve.1" THEN "resolve.2" ELSE "done"

Resolved(id, requests) ==
    /\ loc' = [loc EXCEPT !.resolved = Append(@, Returns(id, requests))]
    /\ pc' = AfterCall
    /\ exit' = IF AfterCall = "done" THEN 0 ELSE exit
    /\ UNCHANGED <<out, err>>

\* slack-cli.py resolve_user(token, args.user)
CallResolveUser ==
    /\ pc \in {"resolve.1", "resolve.2"}
    /\ client = "slack" /\ args.user # None
    /\ IF IsUserId(args.user)
       THEN Resolved(args.user, Len(http)) /\ UNCHANGED http
       ELSE \E resp \in SlackResponses(MemberListings) :
            /\ Issue(Request("GET", "users.list", None, None), resp)
            /\ IF resp.raised THEN Crash
               ELSE IF ~resp.sok THEN Die(SlackError(resp), 2)
               ELSE LET id == FindUser(resp.ret, LStrip(args.user, {"@"})) IN
                    IF id = None
                    THEN Die(<<"ERROR: User '">> \o args.user \o <<"' not found">>, 2)
                    ELSE Resolved(id, Len(http) + 1)
    /\ UNCHANGED creds
    /\ Static

\* slack-cli.py resolve_channel(token, args.channel)
CallResolveChannel ==
    /\ pc \in {"resolve.1", "resolve.2"}
    /\ client = "slack" /\ args.channel # None
    /\ IF IsChannelId(args.channel)
       THEN Resolved(args.channel, Len(http)) /\ UNCHANGED http
       ELSE \E resp \in SlackResponses(ChannelListings) :
            /\ Issue(Request("GET", "conversations.list", None, None), resp)
            /\ IF resp.raised THEN Crash
               ELSE IF ~resp.sok THEN Die(SlackError(resp), 2)
               ELSE LET id == FindChannel(resp.ret, LStrip(args.channel, {"#"})) IN
                    IF id = None
                    THEN Die(<<"ERROR: Channel '">> \o args.channel
                                 \o <<"' not found">>, 2)
                    ELSE Resolved(id, Len(http) + 1)
    /\ UNCHANGED creds
    /\ Static

\* jira-cli.py get_user_account_id(base_url, auth, args.assignee)
CallGetUserAccountId ==
    /\ pc \in {"resolve.1", "resolve.2"}
    /\ client = "jira"
    /\ \E resp \in Responses(UserListings) :
        /\ Issue(Request("GET", "search_users", None, args.assignee), resp)
        /\ IF resp.raised THEN Crash
           ELSE IF ~SearchUsersOk(resp) THEN Die(HttpError(resp), 2)
           ELSE Resolved(GetUserAccountId(resp.ret), Len(http) + 1)
    /\ UNCHANGED creds
    /\ Static

ResolverInputs ==
    [jira |-> {[NoArgs EXCEPT !.assignee = a] : a \in {<<"bob">>, <<"acc1">>}},
     slack |-> {[NoArgs EXCEPT !.user = a.user] : a \in {b \in SlackArgs : b.action = "dm"}}
               \cup {[NoArgs EXCEPT !.channel = a.channel] :
                        a \in {b \in SlackArgs : b.action = "send"}}]

InitResolve ==
    /\ client \in {"jira", "slack"}
    /\ args \in ResolverInputs[client]
    /\ env = EnvFull(client)
    /\ file = NoFile
    /\ creds = LoadCredentialsOf(client, env, file)
    /\ pc = "resolve.1"
    /\ http = <<>>
    /\ out = <<>>
    /\ err = <<>>
    /\ exit = Running
    /\ loc = NoLocals

NextResolve ==
    \/ CallResolveUser
    \/ CallResolveChannel
    \/ CallGetUserAccountId

SpecResolve == InitResolve /\ [][NextResolve]_vars

-----------------------------------------------------------------------------
(* Credential resolution (C1 - C3), checked under SpecCred *)

\* load_credentials has returned to main()
Loaded == creds.ok

\* What a per-field merge of the two sources gives: the environment value when
\* it is non-empty, else the value the file holds for the key.
FileValue(f) ==
    IF file.exists THEN ReadFile(client, [g \in AllFields |-> None], file.lines)[f]
    ELSE None

MergedValue(f) == IF Truthy(env[f]) THEN env[f] ELSE FileValue(f)

\* The value load_credentials returns for a field it resolved to v
Returned(f, v) == IF f = "base_url" THEN RStrip(v, {"/"}) ELSE v

Required(c) == IF c = "gitlab" THEN {"token"} ELSE Fields(c)

\* C1: when the environment supplies a non-empty value for a credential field,
\* load_credentials returns that value for the field (a base URL without its
\* trailing slashes), whatever the file holds and whichever other fields the
\* environment lacks.
C1_EnvOverridesFile ==
    Loaded => \A f \in Fields(client) :
                  Truthy(env[f]) => creds[f] = Returned(f, env[f])

\* C2: load_credentials succeeds exactly when every required field is non-empty
\* after the per-field merge with environment precedence; otherwise the process
\* has exited with status 1 and has issued no HTTP request.
C2_ConfiguredIffMerged ==
    (pc # "start" /\ args.action # NoAction) =>
        /\ Loaded <=> \A f \in Required(client) : Truthy(MergedValue(f))
        /\ ~Loaded => (exit = 1 /\ http = <<>>)

\* C3: the GitLab base URL is the environment's value, else the file's, else the
\* default https://gitlab.com; the default is returned only when neither source
\* supplies a value, wherever GITLAB_TOKEN comes from.
C3_GitlabBaseUrlOrder ==
    (client = "gitlab" /\ Loaded) =>
        /\ Truthy(env.base_url) => creds.base_url = Returned("base_url", env.base_url)
        /\ (env.base_url = None /\ Truthy(FileValue("base_url"))) =>
               creds.base_url = Returned("base_url", FileValue("base_url"))
        /\ creds.base_url = GitlabDefaultUrl =>
               (env.base_url = None /\ ~Truthy(FileValue("base_url")))

-----------------------------------------------------------------------------
(* Compound operations (C4 - C10), checked under Spec *)

Last == http[Len(http)]

\* A response that came back and reports failure: for the REST services a
\* status outside 2xx, for Slack a body whose "ok" is false.
Failing(h) ==
    /\ ~h.raised
    /\ IF client = "slack" THEN ~h.sok ELSE h.status \notin 200..299

Calls(op) == {i \in 1..Len(http) : http[i].op = op}

RECURSIVE ListedNames(_)
ListedNames(text) ==
    IF text = <<>> THEN <<>>
    ELSE IF ~Contains(text, ", ") THEN <<text>>
    ELSE <<SubSeq(text, 1, FirstIndex(text, ", ") - 1)>>
             \o ListedNames(SubSeq(text, FirstIndex(text, ", ") + 1, Len(text)))

NotFoundPrefix(name) == <<"ERROR: Transition '">> \o name \o <<"' not found. Available: ">>

\* The transitions GET answered with a listing none of whose names equals the
\* requested name, letter case aside
UnknownTransition(h) ==
    /\ h.op = "get_transitions"
    /\ ~h.raised /\ h.status = 200
    /\ \A k \in 1..Len(h.ret) : Lower(h.ret[k].name) # Lower(TransitionName)

\* The fetches transition_issue makes to look a name up: every fetch but the
\* first one of unresolve, which clear_resolution makes to choose the name
LookupFetches ==
    IF args.action = "unresolve" THEN Calls("get_transitions") \ {1}
    ELSE Calls("get_transitions")

\* C5: when the requested transition name equals, case-insensitively, none of the
\* names the transitions GET returned, the process has exited with status 2, the
\* error text lists exactly the fetched names in listing order, and neither a
\* transition POST nor a comment POST has been issued.
C5_UnknownTransition ==
    \A i \in LookupFetches :
        UnknownTransition(http[i]) =>
            /\ i = Len(http)
            /\ pc = "done" /\ exit = 2
            /\ err # <<>>
            /\ LET line == err[Len(err)]
                   n == Len(NotFoundPrefix(TransitionName))
               IN  /\ Len(line) >= n
                   /\ SubSeq(line, 1, n) = NotFoundPrefix(TransitionName)
                   /\ ListedNames(SubSeq(line, n + 1, Len(line))) = Names(http[i].ret)
            /\ Calls("transition") = {}
            /\ Calls("add_comment") = {}

\* An unknown name against a listing of two transitions
C5_Witness ==
    /\ Len(http) >= 1
    /\ UnknownTransition(Last)
    /\ Len(Last.ret) = 2
    /\ Last.ret[1].name # Last.ret[2].name
    /\ exit = 2

\* C6: the transition POST carries the id of the first transition in listing
\* order whose name matches the requested name case-insensitively; a comment POST
\* of a transition-with-comment directly follows a transition POST that returned
\* 204, so it is never issued when the transition POST failed.
C6_FirstMatchThenComment ==
    /\ \A i \in Calls("transition") :
        /\ i > 1
        /\ http[i - 1].op = "get_transitions"
        /\ LET listing == http[i - 1].ret IN
            \E k \in 1..Len(listing) :
                /\ Lower(listing[k].name) = Lower(TransitionName)
                /\ \A j \in 1..(k - 1) : Lower(listing[j].name) # Lower(TransitionName)
                /\ http[i].val = listing[k].id
    /\ Truthy(args.transition) =>
        \A i \in Calls("add_comment") :
            /\ i > 1
            /\ http[i - 1].op = "transition"
            /\ ~http[i - 1].raised
            /\ http[i - 1].status = 204

\* A comment posted after a transition that two listed names matched
C6_Witness ==
    /\ Calls("add_comment") # {}
    /\ \E i \in Calls("get_transitions") :
        /\ ~http[i].raised /\ http[i].status = 200
        /\ Len(http[i].ret) = 2
        /\ http[i].ret[1].id # http[i].ret[2].id
        /\ \A k \in 1..2 : Lower(http[i].ret[k].name) = Lower(args.transition)


\* The assignee lookup of a create: the user search is the first call
AssigneeLookup ==
    /\ args.action = "create"
    /\ Len(http) >= 1
    /\ http[1].op = "search_users"

CreateWarning ==
    <<"WARNING: User '">> \o args.assignee \o <<"' not found, creating without assignee">>

Printed(stream, line) == \E k \in 1..Len(stream) : stream[k] = line

\* What C7 promises once the lookup has not produced an account ID
CreatedUnassigned ==
    /\ Printed(err, CreateWarning)
    /\ Len(http) = 1 => (pc = "create.post" /\ exit = Running)
    /\ Len(http) >= 2 =>
        /\ http[2].op = "create_issue"
        /\ http[2].val = NoField
        /\ (/\ pc = "done"
            /\ ~http[2].raised /\ http[2].status \in {200, 201}
            /\ Len(http) >= 3 => (~http[3].raised /\ http[3].status = 204))
           => exit = 0

\* C7 as stated: whichever way the resolution fails (the search finds nobody, or
\* the search call is answered with a failing status), the create POST is
\* still issued without an assignee field, a warning is written, and the process
\* exits 0 when the create and the epic link succeed.
C7_AnyResolutionFailure ==
    (/\ AssigneeLookup
     /\ \/ Failing(http[1])
        \/ (~http[1].raised /\ http[1].status = 200 /\ http[1].ret = <<>>))
    => CreatedUnassigned

\* C7 amended: when the user search returns 200 with an empty listing, the create
\* POST is still issued without an assignee field, the warning is written, and
\* the process exits 0 when the create and the epic link succeed; when the search
\* call returns another status, the process exits 2 and no create POST is issued.
C7_NotFoundCreatesUnassigned ==
    AssigneeLookup =>
        /\ (~http[1].raised /\ http[1].status = 200 /\ http[1].ret = <<>>)
               => CreatedUnassigned
        /\ (~http[1].raised /\ http[1].status # 200)
               => (Len(http) = 1 /\ pc = "done" /\ exit = 2)

\* A create that went through unassigned after an empty user listing
C7_Witness ==
    /\ AssigneeLookup
    /\ ~http[1].raised /\ http[1].status = 200 /\ http[1].ret = <<>>
    /\ Len(http) = 2
    /\ http[2].val = NoField
    /\ exit = 0

\* C8: in a create, the link PUT directly follows a create POST that succeeded,
\* and addresses the key that call returned; by then "Created: <key>" has been
\* printed; when the link PUT is refused it is the last request of the
\* invocation (nothing deletes or alters the created issue) and the exit status
\* is 2.
C8_LinkAfterCreate ==
    args.action = "create" =>
        \A i \in Calls("link_to_epic") :
            /\ i > 1
            /\ http[i - 1].op = "create_issue"
            /\ ~http[i - 1].raised
            /\ http[i - 1].status \in {200, 201}
            /\ http[i].key = http[i - 1].ret
            /\ Printed(out, <<"Created: ">> \o http[i - 1].ret)
            /\ Failing(http[i]) => (i = Len(http) /\ pc = "done" /\ exit = 2)

\* A refused link PUT after a successful create
C8_Witness ==
    /\ args.action = "create"
    /\ Calls("link_to_epic") # {}
    /\ Failing(Last)
    /\ Last.op = "link_to_epic"
    /\ Printed(out, <<"Created: ">> \o Last.key)

\* C9: in a Confluence update, the PUT is the second request, after a page GET
\* that returned 200; when that GET reported version N the PUT carries N + 1;
\* when the PUT comes back with a status other than 200 the process has exited
\* with status 2 after exactly one GET and one PUT.
C9_UpdatePageVersion ==
    (client = "confluence" /\ args.action = "update") =>
        /\ Len(http) <= 2
        /\ \A i \in Calls("update_page") :
            /\ i = 2
            /\ http[1].op = "get_page"
            /\ ~http[1].raised /\ http[1].status = 200
            /\ http[1].ret # <<>> => http[2].val = http[1].ret[1] + 1
            /\ (~http[2].raised /\ http[2].status # 200) => (pc = "done" /\ exit = 2)

\* A PUT of version 3 that the remote refused
C9_Witness ==
    /\ client = "confluence"
    /\ Len(http) = 2
    /\ http[1].ret = <<2>>
    /\ http[2].op = "update_page"
    /\ http[2].status = 409
    /\ exit = 2

\* C10: in a direct message, once conversations.open has returned ok with channel
\* id c, the only request that follows is chat.postMessage with channel = c: no
\* channel lookup, and no exit before that request.
C10_DmIntoOpenedChannel ==
    args.action = "dm" =>
        \A i \in Calls("conversations.open") :
            (~http[i].raised /\ http[i].sok) =>
                /\ Len(http) = i => exit = Running
                /\ Len(http) > i =>
                    /\ Len(http) = i + 1
                    /\ http[i + 1].op = "chat.postMessage"
                    /\ http[i + 1].val = http[i].ret

-----------------------------------------------------------------------------
(* Jira assign (C11), checked under Spec *)

\* The word "none" in the letter cases the command line is given in
NoneSpellings ==
    {<<"n", "o", "n", "e">>, <<"N", "O", "N", "E">>, <<"N", "o", "n", "E">>}

AssignRun == client = "jira" /\ args.action = "assign" /\ http # <<>>

\* The user search came back with an empty listing
NoUserFound(h) ==
    h.op = "search_users" /\ ~h.raised /\ h.status = 200 /\ h.ret = <<>>

\* C11: jira assign with --user "none" in any letter case issues the unassign
\* PUT (accountId null) and never a user search; with any other --user the first
\* request is the user search, and when that search finds no user the process
\* exits 2 without an assign PUT.
C11_AssignNone ==
    AssignRun =>
        IF args.user \in NoneSpellings
        THEN /\ Len(http) = 1
             /\ http[1].op = "unassign_issue"
             /\ http[1].method = "PUT"
             /\ http[1].val = None
        ELSE /\ http[1].op = "search_users"
             /\ http[1].val = args.user
             /\ Calls("unassign_issue") = {}
             /\ NoUserFound(http[1]) =>
                    (exit = 2 /\ Len(http) = 1 /\ Calls("assign_issue") = {})

C11_Witness ==
    /\ AssignRun
    /\ args.user = <<"N", "o", "n", "E">>
    /\ http[1].op = "unassign_issue"
    /\ exit = 0

-----------------------------------------------------------------------------
(* Resolver idempotence (C12), checked under SpecResolve *)

TwiceResolved == Len(loc.resolved) = 2

\* C12: two resolutions of the same raw input in one process return the same
\* ID, and the second resolution issues no HTTP request.
C12_ResolveIdempotent ==
    TwiceResolved =>
        /\ loc.resolved[2].id = loc.resolved[1].id
        /\ loc.resolved[2].requests = loc.resolved[1].requests

-----------------------------------------------------------------------------
(* Slack resolvers (C13), checked under Spec *)

\* The ID shape: the prefix letter, and more than 8 characters
HasIdShape(raw, letter) == Len(raw) > 8 /\ raw[1] = letter

SlackRun(actions) == client = "slack" /\ args.action \in actions /\ http # <<>>

\* The request that follows resolve_channel in send_message / get_history
AfterChannelOp == IF args.action = "history" THEN "conversations.history"
                  ELSE "chat.postMessage"

\* C13: an input of the ID shape (channel: 'C' and more than 8 characters,
\* user: 'U' and more than 8 characters) is returned unchanged by the resolver
\* without an HTTP request, so the first request is the one of the next step
\* and carries the input; every other input takes the listing lookup.
C13_FastPath ==
    /\ SlackRun({"send", "history"}) =>
           IF HasIdShape(args.channel, "C")
           THEN http[1].op = AfterChannelOp /\ http[1].val = args.channel
           ELSE http[1].op = "conversations.list"
    /\ SlackRun({"dm"}) =>
           /\ IF HasIdShape(args.user, "U")
              THEN http[1].op = "conversations.open" /\ http[1].val = args.user
              ELSE http[1].op = "users.list"
           /\ \A i \in 1..(Len(http) - 1) :
                  (http[i].op = "conversations.open") =>
                      IF HasIdShape(http[i].ret, "C")
                      THEN /\ http[i + 1].op = "chat.postMessage"
                           /\ http[i + 1].val = http[i].ret
                      ELSE http[i + 1].op = "conversations.list"

C13_Witness ==
    /\ SlackRun({"send"})
    /\ args.channel = SlackId("C", "1")
    /\ Len(http) = 1
    /\ http[1].op = "chat.postMessage"
    /\ exit = 0

-----------------------------------------------------------------------------
(* Resolver slow path (C14), checked under Spec *)

\* A listing request that came back with a listing
Listed(i, op) ==
    /\ http[i].op = op
    /\ ~http[i].raised
    /\ IF client = "slack" THEN http[i].sok ELSE http[i].status = 200

\* The records of a listing that match, by position
MemberHits(members, name) ==
    {k \in 1..Len(members) :
        members[k].name = name \/ members[k].display_name = name}

ChannelHits(channels, name) == {k \in 1..Len(channels) : channels[k].name = name}

\* id is the ID of the first record among hits, in listing order
IsFirstOf(listing, hits, id) ==
    \E k \in hits : (\A j \in hits : k <= j) /\ id = listing[k].id

\* The process reported not-found right after request i and stopped
NotFoundAfter(i, raw) ==
    /\ Len(http) = i
    /\ exit = 2
    /\ err # <<>>
    /\ LET line == err[Len(err)] IN
           /\ Len(line) > Len(raw)
           /\ SubSeq(line, Len(line) - Len(raw), Len(line)) = raw \o <<"' not found">>

\* The name the Slack resolvers look up: the input without its leading sigil
UserName == LStrip(args.user, {"@"})
ChannelName == LStrip(ChannelParam, {"#"})

\* C14: on the slow path the resolver returns the ID of the first matching
\* record in listing order (Jira: the first user of the search result; Slack
\* user: the first member whose name or display name is the looked-up name;
\* Slack channel: the first channel of that name), and when the listing holds no
\* match it returns no ID (Jira) or the process exits 2 (Slack).
C14_FirstMatch ==
    /\ \A i \in 1..Len(http) : Listed(i, "search_users") =>
           IF http[i].ret = <<>>
           THEN loc.assignee_id = None /\ Calls("assign_issue") = {}
           ELSE \/ loc.assignee_id = http[i].ret[1]
                \/ args.action = "assign" /\ ~Truthy(http[i].ret[1]) /\ exit = 2
    /\ \A i \in 1..Len(http) : Listed(i, "users.list") =>
           LET hits == MemberHits(http[i].ret, UserName) IN
           IF hits = {} THEN NotFoundAfter(i, args.user)
           ELSE /\ IsFirstOf(http[i].ret, hits, loc.user_id)
                /\ Len(http) > i => http[i + 1].val = loc.user_id
    /\ \A i \in 1..Len(http) :
           (Listed(i, "conversations.list") /\ args.action # "channels") =>
           LET hits == ChannelHits(http[i].ret, ChannelName) IN
           IF hits = {} THEN NotFoundAfter(i, ChannelParam)
           ELSE /\ IsFirstOf(http[i].ret, hits, loc.channel_id)
                /\ Len(http) > i => http[i + 1].val = loc.channel_id

C14_Witness ==
    /\ client = "slack" /\ args.action = "dm" /\ args.user = <<"b">>
    /\ Len(http) = 2
    /\ Listed(1, "users.list")
    /\ Cardinality(MemberHits(http[1].ret, <<"b">>)) = 2
    /\ http[2].op = "conversations.open"
    /\ http[2].val = http[1].ret[1].id

-----------------------------------------------------------------------------
(* Status classification (C15), checked under Spec *)

\* The statuses an operation accepts: reads 200, creates 200/201, state-only
\* mutations 204 (the page update and the Slack methods answer with a body: 200)
ExpectedStatus(op) ==
    CASE op \in {"create_issue", "add_comment"} -> {200, 201}
      [] op = "link_issues" -> {200, 201}
      [] op \in {"link_to_epic", "assign_issue", "unassign_issue",
                 "update_issue_fields", "transition", "set_dates",
                 "update_labels"} -> {204}
      [] OTHER -> {200}

Unexpected(h) == ~h.raised /\ h.status \notin ExpectedStatus(h.op)

\* A diagnostic line that carries the status and the raw body of response h
StatusAndBody(line, h) ==
    Contains(line, ToString(h.status)) /\ Contains(line, "<response.text>")

\* C15: a response whose HTTP status is outside the operation's expected-status
\* set is a failure: nothing follows it (its payload is not used), the last
\* diagnostic line carries the status and the raw body, and the process has
\* exited with status 2. For all four clients.
C15_StatusClassified ==
    \A i \in 1..Len(http) : Unexpected(http[i]) =>
        /\ i = Len(http)
        /\ pc = "done" /\ exit = 2
        /\ err # <<>> /\ StatusAndBody(err[Len(err)], http[i])

-----------------------------------------------------------------------------
(* No retries (C16), checked under Spec *)

\* A request that timed out (or raised otherwise), or came back failing
Unsuccessful(h) == h.raised \/ Failing(h)

SameRequest(g, h) ==
    g.method = h.method /\ g.op = h.op /\ g.key = h.key /\ g.val = h.val

\* C16: a request that failed or timed out is never issued again, and a
\* timeout ends the invocation: the exit status is non-zero and no HTTP call
\* follows.
C16_NoRetry ==
    \A i \in 1..Len(http) :
        /\ Unsuccessful(http[i]) =>
               \A j \in (i + 1)..Len(http) : ~SameRequest(http[i], http[j])
        /\ http[i].raised =>
               (i = Len(http) /\ pc = "done" /\ exit \notin {0, Running})

\* A page update whose PUT timed out after the page was read
C16_Witness ==
    /\ client = "confluence" /\ args.action = "update"
    /\ Len(http) = 2
    /\ ~Unsuccessful(http[1])
    /\ http[2].op = "update_page" /\ http[2].raised
    /\ exit = 1

-----------------------------------------------------------------------------
(* Missing flag combinations (C17, C18), checked under Spec *)

Given(flag) == flag # None /\ flag # <<>>

\* A command line that lacks the flags its subcommand needs
MissingFlagCombination ==
    /\ client = "jira"
    /\ \/ /\ args.action = "update"
          /\ ~Given(args.transition) /\ ~Given(args.comment)
          /\ ~Given(args.assignee) /\ ~Given(args.summary)
       \/ args.action = "dates" /\ ~Given(args.start) /\ ~Given(args.due)
       \/ args.action = "labels" /\ ~Given(args.add) /\ ~Given(args.remove)
       \/ /\ args.action = "link"
          /\ ~args.list_types
          /\ ~(Given(args.from_issue) /\ Given(args.to_issue) /\ Given(args.link_type))

Ended == pc = "done"

UpdateRun == client = "jira" /\ args.action = "update" /\ creds.ok /\ Ended

SpecifyLine == <<"ERROR: Specify --transition, --comment, --assignee, or --summary">>

\* C18 as stated: jira update invoked with neither --transition nor --comment
\* terminates with exit status 2.
C18_NoTransitionNoCommentExit2 ==
    (UpdateRun /\ ~Given(args.transition) /\ ~Given(args.comment)) => exit = 2

\* C18 amended: jira update is a ValidationError with exit status 2 when none
\* of --transition, --comment, --assignee, --summary is given (no HTTP request
\* is issued) or when nothing was updated because the only change asked for
\* was an --assignee that was not found; an update with --summary or a found
\* --assignee needs neither --transition nor --comment and exits 0 when its
\* calls succeed.
C18_NothingToUpdateExit2 ==
    (UpdateRun /\ ~Given(args.transition) /\ ~Given(args.comment)) =>
        /\ (~Given(args.assignee) /\ ~Given(args.summary)) =>
               (exit = 2 /\ http = <<>> /\ err = <<SpecifyLine>>)
        /\ (\A i \in 1..Len(http) : ~http[i].raised /\ ~Unexpected(http[i])) =>
               IF \E i \in 1..Len(http) : http[i].method = "PUT"
               THEN exit = 0
               ELSE exit = 2 /\ err[Len(err)] = SpecifyLine

C18_Witness ==
    /\ UpdateRun
    /\ ~Given(args.transition) /\ ~Given(args.comment)
    /\ ~Given(args.assignee) /\ ~Given(args.summary)
    /\ exit = 2
    /\ http = <<>>

-----------------------------------------------------------------------------
(* No subcommand (C19), checked under Spec *)

NoSubcommand == args.action = NoAction /\ pc # "start"

\* C19: a client invoked with no subcommand prints the usage and exits with
\* status 1 before the credentials are resolved and before any HTTP request,
\* whether the credentials are configured or missing.
C19_NoSubcommand ==
    NoSubcommand =>
        /\ exit = 1
        /\ out = << <<"<usage>">> >>
        /\ err = <<>>
        /\ creds = NoCreds
        /\ http = <<>>

C19_Witness ==
    /\ NoSubcommand
    /\ client = "gitlab"
    /\ env = EnvFull("gitlab")
    /\ exit = 1

-----------------------------------------------------------------------------
(* format_output (C20), checked under SpecFormat *)

Formatted == pc = "done" /\ Len(out) = 1

EmptyList == loc.data.list /\ loc.data.items = <<>>

\* C20: format_output given an empty list in summary mode returns exactly the
\* client's no-results message: 'No results found' for Jira and Confluence,
\* 'No results' for Slack and GitLab.
C20_EmptySummary ==
    (Formatted /\ EmptyList /\ args.format = "summary") =>
        out[1] = IF client \in {"jira", "confluence"}
                 THEN <<"No results found">>
                 ELSE <<"No results">>

C20_Witness ==
    /\ Formatted /\ EmptyList /\ args.format = "summary"
    /\ client = "slack"
    /\ out = << <<"No results">> >>

-----------------------------------------------------------------------------
(* format_output in ids/keys mode (C21), checked under SpecFormat *)

\* The name of the mode that lists identifiers: keys for Jira, ids elsewhere
IdsMode == IF client = "jira" THEN "keys" ELSE "ids"

\* The record carries its identifying field, as the records the clients build do
Identified(item) ==
    CASE client = "jira" -> "key" \in DOMAIN item
      [] client = "gitlab" -> "id" \in DOMAIN item \/ "iid" \in DOMAIN item
      [] OTHER -> "id" \in DOMAIN item

IdentifyingField(item) ==
    CASE client = "jira" -> item["key"]
      [] client = "gitlab" -> IF "id" \in DOMAIN item THEN item["id"] ELSE item["iid"]
      [] OTHER -> item["id"]

IdsOfRecords ==
    /\ Formatted
    /\ args.format = IdsMode
    /\ loc.data.list /\ loc.data.items # <<>>
    /\ \A i \in 1..Len(loc.data.items) : Identified(loc.data.items[i])

\* C21: format_output given a list of records in ids/keys mode returns the
\* identifying field of each record, one per record and in input order, with a
\* newline between two of them and nothing after the last.
C21_IdsJoined ==
    IdsOfRecords =>
        LET items == loc.data.items
            n == Len(items)
        IN  /\ Len(out[1]) = 2 * n - 1
            /\ \A i \in 1..n : <<out[1][2 * i - 1]>> = IdentifyingField(items[i])
            /\ \A i \in 1..(n - 1) : out[1][2 * i] = "\n"

C21_Witness ==
    /\ IdsOfRecords
    /\ client = "jira"
    /\ out = << <<"K2", "\n", "K1">> >>

-----------------------------------------------------------------------------
(* format_output of empty input (C22), checked under SpecFormat *)

\* The output modes a client's format_output knows
ModesOf(c) ==
    CASE c = "jira" -> {"summary", "keys", "table", "full"}
      [] c = "confluence" -> {"summary", "ids", "full"}
      [] OTHER -> {"summary", "ids", "full"}

NoResultsMessage ==
    IF client \in {"jira", "confluence"} THEN <<"No results found">>
    ELSE <<"No results">>

\* C22: in every output mode (summary, ids/keys, table, full) format_output
\* renders empty input as the literal no-results message, never as the empty
\* string.
C22_EmptyInEveryMode ==
    (Formatted /\ EmptyList /\ args.format \in ModesOf(client)) =>
        (out[1] # <<>> /\ out[1] = NoResultsMessage)

-----------------------------------------------------------------------------
(* Jira account IDs as input (C23), checked under SpecResolve *)

\* The input of get_user_account_id is an account ID already
AccountIdGiven == client = "jira" /\ args.assignee \in {<<"acc1">>, <<"acc2">>}

\* C23: when the input is already a Jira account ID, get_user_account_id
\* returns it unchanged and issues no user-search request.
C23_AccountIdEscapeHatch ==
    (AccountIdGiven /\ loc.resolved # <<>>) =>
        /\ loc.resolved[1].id = args.assignee
        /\ loc.resolved[1].requests = 0
        /\ Calls("search_users") = {}

-----------------------------------------------------------------------------
(* The order of the steps of jira update (C24), checked under Spec *)

JiraUpdate == client = "jira" /\ args.action = "update"

\* The requests of update in the order of its steps: assignee change (search,
\* assign), summary change, transition (listing, POST), comment
StepRank(op) ==
    CASE op = "search_users" -> 1
      [] op = "assign_issue" -> 2
      [] op = "update_issue_fields" -> 3
      [] op = "get_transitions" -> 4
      [] op = "transition" -> 5
      [] op = "add_comment" -> 6
      [] OTHER -> 0

ReturnedSuccessfully(h) == ~h.raised /\ ~Unexpected(h)

\* C24: jira update issues its requests in the order assignee change, summary
\* change, transition, comment; a request is issued only after every earlier
\* one returned successfully, so a failing request is the last one (nothing is
\* undone, nothing later is attempted); and an update that exits 0 has issued
\* the request of every step that was asked for.
C24_UpdateStepOrder ==
    JiraUpdate =>
        /\ \A i \in 1..Len(http) : StepRank(http[i].op) > 0
        /\ \A i, j \in 1..Len(http) :
               i < j => /\ StepRank(http[i].op) < StepRank(http[j].op)
                        /\ ReturnedSuccessfully(http[i])
        /\ exit = 0 =>
               /\ Given(args.assignee) => Calls("search_users") # {}
               /\ Given(args.summary) => Calls("update_issue_fields") # {}
               /\ Given(args.transition) => Calls("transition") # {}
               /\ Given(args.comment) => Calls("add_comment") # {}

\* The summary change fails after the assignee was changed; the transition
\* that was asked for is not attempted
C24_Witness ==
    /\ JiraUpdate
    /\ Given(args.transition)
    /\ Len(http) = 3
    /\ http[2].op = "assign_issue" /\ ReturnedSuccessfully(http[2])
    /\ http[3].op = "update_issue_fields" /\ http[3].status = 409
    /\ exit = 2

-----------------------------------------------------------------------------
(* C25, C26: the connection test *)

Services == <<"Jira", "Confluence", "Slack", "GitLab">>
ProbeOp == <<"jira.myself", "confluence.current", "slack.auth.test", "gitlab.user">>

\* The keys that make test_all probe the service
ProbeKeys(i) ==
    CASE i = 1 -> {"JIRA_BASE_URL", "JIRA_API_TOKEN"}
      [] i = 2 -> {"CONFLUENCE_BASE_URL", "CONFLUENCE_API_TOKEN"}
      [] i = 3 -> {"SLACK_BOT_TOKEN"}
      [] i = 4 -> {"GITLAB_TOKEN"}

ConfigLoaded == client = "test-connection" /\ pc # "test.start"
TestEnded == client = "test-connection" /\ pc = "done"

\* The line test_all printed for the i-th service, after the two header lines
ServiceLine(i) == out[2 + i]
NotConfigured(i) == ServiceLine(i) = <<Services[i], ": Not configured">>

\* C25: the connection test resolves a credential as the clients do: a key set
\* in the environment has the environment's value, whatever the file says, and
\* a service whose keys are all in the environment is probed.
C25_EnvironmentResolved ==
    /\ ConfigLoaded =>
          \A k \in TestKeys : Truthy(env[k]) => loc.config[k] = env[k]
    /\ TestEnded =>
          \A i \in 1..4 :
              (\A k \in ProbeKeys(i) : Truthy(env[k])) => ~NotConfigured(i)

Configured(i) == \A k \in ProbeKeys(i) : Truthy(loc.config[k])

Succeeded(i) ==
    \E n \in 1..Len(http) :
        /\ http[n].op = ProbeOp[i]
        /\ ~http[n].raised
        /\ http[n].status = 200
        /\ i = 3 => http[n].sok

NoEmail(i) ==
    \/ i = 1 /\ loc.config["JIRA_EMAIL"] = None
    \/ i = 2 /\ loc.config["CONFLUENCE_EMAIL"] = None

\* C26: test_all returns 0 exactly when some service is configured and every
\* configured service's probe succeeded, and 1 otherwise; all four services
\* are reported, in the order Jira, Confluence, Slack, GitLab, whatever the
\* earlier probes did; a probe that failed or raised, a Jira or Confluence
\* entry without email included, is a failure of that service alone.
C26_TestAllResult ==
    TestEnded =>
        /\ exit \in {0, 1}
        /\ exit = 0 <=> /\ \E i \in 1..4 : Configured(i)
                        /\ \A i \in 1..4 : Configured(i) => Succeeded(i)
        /\ Len(out) = 8
        /\ \A i \in 1..4 :
              /\ ServiceLine(i)[1] = Services[i]
              /\ NotConfigured(i) <=> ~Configured(i)
              /\ ServiceLine(i) = <<Services[i], ": OK">> <=> Succeeded(i)
              /\ Configured(i) /\ NoEmail(i) => ~Succeeded(i)
        /\ Len(loc.results) = Cardinality({i \in 1..4 : Configured(i)})
        /\ \A n, m \in 1..Len(http) :
              n < m => \E i, j \in 1..4 :
                  i < j /\ http[n].op = ProbeOp[i] /\ http[m].op = ProbeOp[j]

C26_Witness ==
    /\ TestEnded
    /\ Configured(1) /\ NoEmail(1)
    /\ Configured(2) /\ \E n \in 1..Len(http) :
                           http[n].op = ProbeOp[2] /\ http[n].raised
    /\ Succeeded(3)
    /\ Succeeded(4)
    /\ exit = 1

-----------------------------------------------------------------------------
(* C29: jira unresolve *)

UnresolveRun == client = "jira" /\ args.action = "unresolve"

\* The listing the n-th request returned, when it is a fetch that succeeded
Fetched(n) ==
    /\ n <= Len(http)
    /\ http[n].op = "get_transitions"
    /\ ReturnedSuccessfully(http[n])

ReopenHits(listing) == {i \in 1..Len(listing) : IsReopen(listing[i])}

\* The transition unresolve has to select in the first listing
Selected(listing) ==
    listing[CHOOSE i \in ReopenHits(listing) : \A j \in ReopenHits(listing) : i <= j]

SameNameHits(listing, name) ==
    {i \in 1..Len(listing) : Lower(listing[i].name) = Lower(name)}

\* C29: unresolve selects the first transition, in listing order, whose name
\* contains one of the aliases whatever the case, fetches the transitions a
\* second time before the POST and posts the id the second listing has for the
\* selected name; with no alias match there is no POST, the names listed are
\* written to standard error and the exit status is 2; when the second listing
\* has lost the selected name the exit status is 2 and nothing is posted.
C29_Unresolve ==
    (UnresolveRun /\ Fetched(1)) =>
        LET first == http[1].ret IN
        /\ Calls("transition") \subseteq {3}
        /\ \A n \in 1..Len(http) : n # 3 => http[n].op = "get_transitions"
        /\ Len(http) <= 3
        /\ ReopenHits(first) = {} =>
              /\ pc = "done" /\ exit = 2 /\ Len(http) = 1
              /\ first # <<>> =>
                    \E k \in 1..Len(err) :
                        err[k] = <<"Available transitions: ">>
                                   \o Join(Names(first), <<", ">>)
        /\ ReopenHits(first) # {} =>
              /\ pc = "done" => Len(http) >= 2
              /\ pc # "unresolve" => loc.transition = Selected(first).name
              /\ Fetched(2) =>
                    LET second == http[2].ret
                        hits == SameNameHits(second, Selected(first).name)
                    IN  /\ hits = {} => pc = "done" /\ exit = 2 /\ Len(http) = 2
                        /\ Len(http) = 3 =>
                              /\ hits # {}
                              /\ \A i \in hits :
                                    (\A j \in hits : i <= j)
                                        => http[3].val = second[i].id
              /\ Len(http) = 3 => Fetched(2) /\ http[3].op = "transition"
              /\ exit = 0 <=> Len(http) = 3 /\ ReturnedSuccessfully(http[3])

C29_Witness ==
    /\ UnresolveRun
    /\ Fetched(1) /\ Fetched(2)
    /\ Len(http[1].ret) = 2
    /\ ReopenHits(http[1].ret) = {1, 2}
    /\ http[1].ret[1].name = <<"R", "E", "O", "P", "E", "N", "!">>
    /\ http[1].ret[2].name # http[1].ret[1].name
    /\ http[2].ret # http[1].ret
    /\ Len(http) = 3
    /\ exit = 0

\* The second listing has lost the selected transition
C29_WitnessLost ==
    /\ UnresolveRun
    /\ Fetched(1) /\ Fetched(2)
    /\ ReopenHits(http[1].ret) # {}
    /\ SameNameHits(http[2].ret, loc.transition) = {}
    /\ http[2].ret # <<>>
    /\ pc = "done"

-----------------------------------------------------------------------------
(* C27: exit status 0 and the outcomes of the requests *)

\* The outcome a client takes for success: the operation's expected status for
\* the REST services, an answer whose "ok" is true for Slack
ExpectedSuccess(h) ==
    /\ ~h.raised
    /\ h.status \in ExpectedStatus(h.op)
    /\ client = "slack" => h.sok

\* C27: in every client, a process that exited with status 0 has had every
\* one of its HTTP requests answered with an outcome of the operation's
\* expected-success set.
C27_ExitZeroAllSucceeded ==
    exit = 0 => \A i \in 1..Len(http) : ExpectedSuccess(http[i])

C27_Witness ==
    /\ exit = 0
    /\ client = "jira"
    /\ Len(http) = 6
    /\ http[6].op = "add_comment"

-----------------------------------------------------------------------------
(* C28: the comment of jira update *)

TransitionSucceededAt(i) ==
    /\ i \in 1..Len(http)
    /\ http[i].op = "transition"
    /\ ReturnedSuccessfully(http[i])

\* C28: jira update posts at most one comment. With --transition and
\* --comment the comment request directly follows a transition POST that
\* succeeded, and is made exactly once when the transition succeeded; with
\* --comment alone no transitions are fetched or posted, and the comment is
\* posted exactly once when the steps before it succeeded; with a transition
\* that failed no comment is posted.
C28_OneComment ==
    JiraUpdate =>
        /\ Cardinality(Calls("add_comment")) <= 1
        /\ Given(args.transition) =>
              /\ \A i \in Calls("add_comment") : TransitionSucceededAt(i - 1)
              /\ (Ended /\ Given(args.comment)
                    /\ \E i \in 1..Len(http) : TransitionSucceededAt(i))
                  => Cardinality(Calls("add_comment")) = 1
              /\ (\E i \in Calls("get_transitions") \cup Calls("transition") :
                      ~ReturnedSuccessfully(http[i]))
                  => Calls("add_comment") = {}
        /\ (~Given(args.transition) /\ Given(args.comment)) =>
              /\ Calls("get_transitions") = {} /\ Calls("transition") = {}
              /\ (Ended /\ creds.ok
                    /\ \A i \in 1..Len(http) :
                          http[i].op # "add_comment" => ReturnedSuccessfully(http[i]))
                  => Cardinality(Calls("add_comment")) = 1
        /\ ~Given(args.comment) => Calls("add_comment") = {}

C28_Witness ==
    /\ UpdateRun
    /\ Given(args.transition) /\ Given(args.comment)
    /\ Cardinality(Calls("add_comment")) = 1
    /\ TransitionSucceededAt(Len(http) - 1)
    /\ exit = 0

-----------------------------------------------------------------------------
(* C30: jira update with an assignee that is not found *)

NotFoundWarning == <<"WARNING: User '">> \o args.assignee \o <<"' not found">>

\* The user search came back with nobody
AssigneeNotFound ==
    /\ UpdateRun
    /\ Given(args.assignee)
    /\ Len(http) >= 1
    /\ http[1].op = "search_users"
    /\ ReturnedSuccessfully(http[1])
    /\ ~Truthy(GetUserAccountId(http[1].ret))

OtherChange ==
    Given(args.summary) \/ Given(args.transition) \/ Given(args.comment)

\* The transition asked for was posted, when one was asked for
TransitionDone ==
    Given(args.transition) => \E i \in 1..Len(http) : http[i].op = "transition"

\* C30: jira update with --assignee alone and a name the search does not find
\* issues the user search and nothing else, writes the not-found warning and
\* then the "Specify ..." error, and exits 2; with another change asked for,
\* the warning is written, no assign request is made, the other change is
\* requested and, when it succeeds, the exit status is 0.
C30_AssigneeNotFound ==
    AssigneeNotFound =>
        /\ \E k \in 1..Len(err) : err[k] = NotFoundWarning
        /\ Calls("assign_issue") = {}
        /\ ~OtherChange =>
              /\ Len(http) = 1
              /\ err = <<NotFoundWarning, SpecifyLine>>
              /\ exit = 2
        /\ OtherChange =>
              /\ Len(http) >= 2
              /\ Given(args.summary) => http[2].op = "update_issue_fields"
              /\ exit = 0 <=> /\ \A i \in 1..Len(http) : ReturnedSuccessfully(http[i])
                              /\ TransitionDone

C30_Witness ==
    /\ AssigneeNotFound
    /\ ~OtherChange
    /\ Len(http) = 1
    /\ exit = 2

C30_WitnessOtherChange ==
    /\ AssigneeNotFound
    /\ Given(args.summary)
    /\ Len(http) = 2
    /\ exit = 0

====
